---- MODULE Spec2Model ----
(***************************************************************************)
(* The unicode test hooks of Modules/_testcapi (src/unnamed/part_000): a   *)
(* table of functions, each of which parses its arguments, calls the C    *)
(* API under test and marshals the result back.  A call of a hook is one   *)
(* action; test_string_from_format, which runs a list of checks, is one    *)
(* action per check.  The C API functions themselves are not part of the   *)
(* file: each call of one draws its outcome from the outcomes its          *)
(* documented contract allows.                                             *)
(*                                                                         *)
(* Spec is the unicode file: its hooks and the function that adds them to  *)
(* the module.  SpecClinic is the generated argument parsing of            *)
(* Modules/clinic/_testinternalcapi.c.h, SpecReflection the functions of   *)
(* Doc/c-api/reflection.rst, and SpecThreads calls of hooks that run on    *)
(* several threads at once.                                                *)
(***************************************************************************)
EXTENDS Integers, Sequences, FiniteSets, TLC

VARIABLES
    pc,        \* "idle": no hook is running; "tsff": inside test_string_from_format;
               \* "aborted": the process was aborted by a C assert
    fn,        \* the hook that ran last (or is running)
    args,      \* the arguments the caller passed to it
    calls,     \* the C API calls it made, in order, each with arguments and outcome
    ret,       \* what it returned
    err,       \* the error indicator of the thread when it returned
    idx,       \* test_string_from_format: the check about to run
    result,    \* test_string_from_format: the variable `result`
    owned,     \* strong references the running hook created and has not released
    _testcapimodule,  \* the static variable of that name
    methods,   \* the functions the module object `m` holds
    parsers,   \* the generated wrappers whose static _parser is initialised
    tstate,    \* the thread state: the frames that are executing, innermost last
    threads,   \* calls of hooks that run on several threads at once
    heap       \* the contents of the objects those threads share

vars == <<pc, fn, args, calls, ret, err, idx, result, owned,
          _testcapimodule, methods, parsers, tstate, threads, heap>>

\* the state outside the hook the main thread runs
statics == <<_testcapimodule, methods, parsers>>
elsewhere == <<tstate, threads, heap>>

-----------------------------------------------------------------------------
(* Bounds of the model *)

\* API calls that return an index or a count return at most this
MaxIndex == 2
\* longest str the caller passes to unicode_aswidechar
MaxLen == 2
\* the most frames that execute at once
MaxFrames == 3
\* the threads that call hooks at once
MaxThreads == 2
\* largest buffer length the caller passes to unicode_aswidechar
MaxBuf == 4

-----------------------------------------------------------------------------
(* Values: PyObject pointers and C integers.  `id` tells objects apart.     *)

NULL == [k |-> "NULL", n |-> 0, s |-> <<>>, id |-> 0]
Py_None == [k |-> "None", n |-> 0, s |-> <<>>, id |-> 1]
Str(s, id) == [k |-> "str", n |-> 0, s |-> s, id |-> id]
Bytes(id) == [k |-> "bytes", n |-> 0, s |-> <<>>, id |-> id]
CInt(n) == [k |-> "cint", n |-> n, s |-> <<>>, id |-> 0]
IsNULL(v) == v.k = "NULL"

\* the error indicator: the exception type and the function that raised it
NoErr == [type |-> "none", by |-> "none"]
Raised(type, by) == [type |-> type, by |-> by]
PyErr_Occurred(e) == e.type # "none"

\* objects a caller passes: None, two str objects and an object that is no str
CallerObjects == {Py_None, Str(<<97>>, 2), Str(<<97, 98>>, 3), Bytes(4)}
\* id of the first object a hook allocates during a call
FreshId == 10

\* one C API call: the function, its arguments, what it returned and the
\* error indicator after it
Call(api, a, res, e) == [api |-> api, args |-> a, res |-> res, err |-> e]

-----------------------------------------------------------------------------
(* Marshalling *)

PyLong_FromSsize_t(n) == [k |-> "int", n |-> n, s |-> <<>>, id |-> 0]
PyLong_FromLong(n) == [k |-> "int", n |-> n, s |-> <<>>, id |-> 0]
\* Py_BuildValue("(Nn)", o, n) and Py_BuildValue("(Ni)", o, n)
Py_BuildValue_Nn(o, n) == [k |-> "tuple", n |-> n, s |-> o.s, id |-> o.id]

NULLABLE(x) == IF x.k = "None" THEN NULL ELSE x

-----------------------------------------------------------------------------
(* The contract of the integer-returning API functions: the values each    *)
(* returns on success, and its error sentinel, returned with an exception  *)
(* set.                                                                    *)

ApiErrors == {"TypeError", "SystemError", "MemoryError"}

ApiSentinel(api) ==
    IF api \in {"PyUnicode_Find", "PyUnicode_FindChar"} THEN -2 ELSE -1

ApiSuccessValues(api) ==
    CASE api \in {"PyUnicode_Find", "PyUnicode_FindChar"} -> -1 .. MaxIndex
      [] api \in {"PyUnicode_Count", "PyUnicode_GetLength"} -> 0 .. MaxIndex
      [] api = "PyUnicode_Compare" -> {-1, 0, 1}
      [] api \in {"PyUnicode_Tailmatch", "PyUnicode_Contains",
                  "PyUnicode_IsIdentifier"} -> {0, 1}

ApiIntOutcomes(api) ==
    {[n |-> v, err |-> NoErr] : v \in ApiSuccessValues(api)}
    \cup {[n |-> ApiSentinel(api), err |-> Raised(t, api)] : t \in ApiErrors}

-----------------------------------------------------------------------------
(* The interpreter calls a hook when no hook is running, no exception is   *)
(* set and the result of the previous call has been taken.                 *)

Callable == pc = "idle" /\ fn = "none"

\* the caller takes what the hook returned and handles its exception
caller_resumes ==
    /\ pc = "idle"
    /\ fn # "none"
    /\ pc' = "idle"
    /\ fn' = "none"
    /\ args' = <<>>
    /\ calls' = <<>>
    /\ ret' = NULL
    /\ err' = NoErr
    /\ idx' = 0
    /\ result' = NULL
    /\ owned' = 0
    /\ UNCHANGED <<statics, elsewhere>>

-----------------------------------------------------------------------------
(* A hook returns: the thread is idle again and the call is on record.     *)

\* `o` is the number of references the hook created and still holds
Returns(f, a, c, r, e, o) ==
    /\ pc' = "idle"
    /\ fn' = f
    /\ args' = a
    /\ calls' = c
    /\ ret' = r
    /\ err' = e
    /\ owned' = o
    /\ idx' = 0
    /\ result' = NULL

\* a hook of the unicode file returns: it leaves the static state alone
ReturnOwning(f, a, c, r, e, o) ==
    /\ Returns(f, a, c, r, e, o)
    /\ UNCHANGED <<statics, elsewhere>>

Return(f, a, c, r, e) == ReturnOwning(f, a, c, r, e, 0)

-----------------------------------------------------------------------------
(* Hooks of the integer-returning API functions *)

unicode_getlength_result(n, e) ==
    IF n = -1 THEN NULL ELSE PyLong_FromSsize_t(n)

unicode_getlength ==
    /\ Callable
    /\ \E arg \in CallerObjects, o \in ApiIntOutcomes("PyUnicode_GetLength") :
         Return("unicode_getlength", <<arg>>,
                <<Call("PyUnicode_GetLength", <<NULLABLE(arg)>>, CInt(o.n), o.err)>>,
                unicode_getlength_result(o.n, o.err), o.err)

\* a slip: the sentinel of PyUnicode_Find tested instead of that of PyUnicode_Count
unicode_count_result_sentinel_of_find(n, e) ==
    IF n = -2 THEN NULL ELSE PyLong_FromSsize_t(n)

unicode_count_result(n, e) ==
    IF n = -1 THEN NULL ELSE PyLong_FromSsize_t(n)

unicode_count ==
    /\ Callable
    /\ \E str \in CallerObjects, substr \in CallerObjects,
          start \in {0}, end \in {0, 1},
          o \in ApiIntOutcomes("PyUnicode_Count") :
         Return("unicode_count", <<str, substr, CInt(start), CInt(end)>>,
                <<Call("PyUnicode_Count",
                       <<NULLABLE(str), NULLABLE(substr), CInt(start), CInt(end)>>,
                       CInt(o.n), o.err)>>,
                unicode_count_result(o.n, o.err), o.err)

\* a slip: "not found" (-1) taken for the error sentinel
unicode_find_result_not_found_is_error(n, e) ==
    IF n = -1 THEN NULL ELSE PyLong_FromSsize_t(n)

unicode_find_result(n, e) ==
    IF n = -2 THEN NULL ELSE PyLong_FromSsize_t(n)

unicode_find ==
    /\ Callable
    /\ \E str \in CallerObjects, substr \in CallerObjects,
          start \in {0}, end \in {1}, direction \in {-1, 1},
          o \in ApiIntOutcomes("PyUnicode_Find") :
         Return("unicode_find",
                <<str, substr, CInt(start), CInt(end), CInt(direction)>>,
                <<Call("PyUnicode_Find",
                       <<NULLABLE(str), NULLABLE(substr), CInt(start), CInt(end),
                         CInt(direction)>>,
                       CInt(o.n), o.err)>>,
                unicode_find_result(o.n, o.err), o.err)

unicode_tailmatch_result(n, e) ==
    IF n = -1 THEN NULL ELSE PyLong_FromSsize_t(n)

unicode_tailmatch ==
    /\ Callable
    /\ \E str \in CallerObjects, substr \in CallerObjects,
          start \in {0}, end \in {1}, direction \in {-1, 1},
          o \in ApiIntOutcomes("PyUnicode_Tailmatch") :
         Return("unicode_tailmatch",
                <<str, substr, CInt(start), CInt(end), CInt(direction)>>,
                <<Call("PyUnicode_Tailmatch",
                       <<NULLABLE(str), NULLABLE(substr), CInt(start), CInt(end),
                         CInt(direction)>>,
                       CInt(o.n), o.err)>>,
                unicode_tailmatch_result(o.n, o.err), o.err)

unicode_findchar_result(n, e) ==
    IF n = -2 THEN NULL ELSE PyLong_FromSsize_t(n)

unicode_findchar ==
    /\ Callable
    /\ \E str \in CallerObjects, ch \in {97, 98},
          start \in {0}, end \in {1}, direction \in {-1, 1},
          o \in ApiIntOutcomes("PyUnicode_FindChar") :
         Return("unicode_findchar",
                <<str, CInt(ch), CInt(start), CInt(end), CInt(direction)>>,
                <<Call("PyUnicode_FindChar",
                       <<NULLABLE(str), CInt(ch), CInt(start), CInt(end),
                         CInt(direction)>>,
                       CInt(o.n), o.err)>>,
                unicode_findchar_result(o.n, o.err), o.err)

unicode_compare_result(n, e) ==
    IF n = -1 /\ PyErr_Occurred(e) THEN NULL ELSE PyLong_FromLong(n)

unicode_compare ==
    /\ Callable
    /\ \E left \in CallerObjects, right \in CallerObjects,
          o \in ApiIntOutcomes("PyUnicode_Compare") :
         Return("unicode_compare", <<left, right>>,
                <<Call("PyUnicode_Compare", <<NULLABLE(left), NULLABLE(right)>>,
                       CInt(o.n), o.err)>>,
                unicode_compare_result(o.n, o.err), o.err)

unicode_contains_result(n, e) ==
    IF n = -1 /\ PyErr_Occurred(e) THEN NULL ELSE PyLong_FromLong(n)

unicode_contains ==
    /\ Callable
    /\ \E container \in CallerObjects, element \in CallerObjects,
          o \in ApiIntOutcomes("PyUnicode_Contains") :
         Return("unicode_contains", <<container, element>>,
                <<Call("PyUnicode_Contains",
                       <<NULLABLE(container), NULLABLE(element)>>,
                       CInt(o.n), o.err)>>,
                unicode_contains_result(o.n, o.err), o.err)

unicode_isidentifier_result(n, e) ==
    IF n = -1 /\ PyErr_Occurred(e) THEN NULL ELSE PyLong_FromLong(n)

unicode_isidentifier ==
    /\ Callable
    /\ \E arg \in CallerObjects, o \in ApiIntOutcomes("PyUnicode_IsIdentifier") :
         Return("unicode_isidentifier", <<arg>>,
                <<Call("PyUnicode_IsIdentifier", <<NULLABLE(arg)>>,
                       CInt(o.n), o.err)>>,
                unicode_isidentifier_result(o.n, o.err), o.err)

-----------------------------------------------------------------------------
(* The contract of the object API functions the hooks below call.  Memory  *)
(* a function allocates and does not write holds indeterminate values.     *)

\* a character of memory nobody has written
Indeterminate == -1
\* the largest code point
MAX_UNICODE == 1114111

Filled(n, ch) == [i \in 1..n |-> ch]
Min(a, b) == IF a < b THEN a ELSE b
Max(a, b) == IF a > b THEN a ELSE b

\* PyUnicode_New(size, maxchar): a new str of `size` unwritten characters
PyUnicode_New(size, maxchar, id, nomem) ==
    IF size < 0 \/ maxchar > MAX_UNICODE
      THEN [res |-> NULL, err |-> Raised("SystemError", "PyUnicode_New")]
    ELSE IF nomem /\ size > 0
      THEN [res |-> NULL, err |-> Raised("MemoryError", "PyUnicode_New")]
    ELSE [res |-> Str(Filled(size, Indeterminate), id), err |-> NoErr]

\* PyUnicode_Fill(unicode, start, length, fill_char), for a non-NULL unicode:
\* writes fill_char to unicode[start : start+length], clipped to the string
PyUnicode_Fill(unicode, start, length, fill_char) ==
    IF unicode.k # "str"
      THEN [n |-> -1, obj |-> unicode, err |-> Raised("SystemError", "PyUnicode_Fill")]
    ELSE IF start < 0
      THEN [n |-> -1, obj |-> unicode, err |-> Raised("IndexError", "PyUnicode_Fill")]
    ELSE LET len == Min(Len(unicode.s) - start, length)
         IN  IF len <= 0
               THEN [n |-> 0, obj |-> unicode, err |-> NoErr]
               ELSE [n |-> len,
                     obj |-> Str([i \in 1..Len(unicode.s) |->
                                    IF i > start /\ i <= start + len
                                      THEN fill_char ELSE unicode.s[i]],
                                 unicode.id),
                     err |-> NoErr]

\* PyUnicode_Resize(&unicode, length): the str cut or grown to `length`
\* characters, the new ones unwritten; *p_unicode is left alone on failure
PyUnicode_Resize(unicode, length, nomem) ==
    IF IsNULL(unicode) \/ unicode.k # "str" \/ length < 0
      THEN [n |-> -1, obj |-> unicode, err |-> Raised("SystemError", "PyUnicode_Resize")]
    ELSE IF nomem /\ length > Len(unicode.s)
      THEN [n |-> -1, obj |-> unicode, err |-> Raised("MemoryError", "PyUnicode_Resize")]
    ELSE [n |-> 0,
          obj |-> Str([i \in 1..length |->
                         IF i <= Len(unicode.s) THEN unicode.s[i] ELSE Indeterminate],
                      unicode.id),
          err |-> NoErr]

\* PyUnicode_Concat(left, right): a new str, or NULL with an exception
PyUnicode_Concat(left, right, id, nomem) ==
    IF IsNULL(left) \/ IsNULL(right) \/ left.k # "str" \/ right.k # "str"
      THEN [res |-> NULL, err |-> Raised("TypeError", "PyUnicode_Concat")]
    ELSE IF nomem
      THEN [res |-> NULL, err |-> Raised("MemoryError", "PyUnicode_Concat")]
    ELSE [res |-> Str(left.s \o right.s, id), err |-> NoErr]

\* PyUnicode_Append(&left, right): *p_left becomes the concatenation; on
\* error *p_left is set to NULL and an exception is set
PyUnicode_Append(left, right, nomem) ==
    IF IsNULL(left) \/ IsNULL(right) \/ left.k # "str" \/ right.k # "str"
      THEN [obj |-> NULL, err |-> Raised("SystemError", "PyUnicode_Append")]
    ELSE IF nomem
      THEN [obj |-> NULL, err |-> Raised("MemoryError", "PyUnicode_Append")]
    ELSE [obj |-> Str(left.s \o right.s, left.id), err |-> NoErr]

\* PyUnicode_InternInPlace(&p) returns nothing and sets no exception.  A
\* build without assertions leaves a NULL or a non-str *p alone; a build
\* with assertions aborts on them.
PyUnicode_InternInPlace(p, debug) ==
    IF IsNULL(p) \/ p.k # "str"
      THEN [obj |-> p, abort |-> debug]
      ELSE [obj |-> p, abort |-> FALSE]

-----------------------------------------------------------------------------
(* The process dies inside a C API call (a failed C assert, or a NULL      *)
(* pointer the API dereferences): the hook never returns.                  *)

Abort(f, a, c) ==
    /\ pc' = "aborted"
    /\ fn' = f
    /\ args' = a
    /\ calls' = c
    /\ ret' = NULL
    /\ err' = NoErr
    /\ owned' = 0
    /\ idx' = 0
    /\ result' = NULL
    /\ UNCHANGED <<statics, elsewhere>>

-----------------------------------------------------------------------------
(* Hooks of the object API functions *)

PyUnicode_MAX_CHAR_VALUE(unicode) == 127

\* a slip: the caller's object is handed on, not a copy of it
unicode_copy_shares(unicode, nomem) ==
    [res |-> unicode, err |-> NoErr, calls |-> <<>>]

\* unicode_copy(unicode): NULL for NULL, the object itself for an object
\* that is no str, and a fresh copy for a str
unicode_copy(unicode, nomem) ==
    IF IsNULL(unicode)
      THEN [res |-> NULL, err |-> NoErr, calls |-> <<>>]
    ELSE IF unicode.k # "str"
      THEN [res |-> unicode, err |-> NoErr, calls |-> <<>>]
    ELSE LET size == Len(unicode.s)
             maxchar == PyUnicode_MAX_CHAR_VALUE(unicode)
             new == PyUnicode_New(size, maxchar, FreshId, nomem)
             newcall == Call("PyUnicode_New", <<CInt(size), CInt(maxchar)>>,
                             new.res, new.err)
         IN  IF IsNULL(new.res)
               THEN [res |-> NULL, err |-> new.err, calls |-> <<newcall>>]
               ELSE [res |-> Str(unicode.s, FreshId), err |-> NoErr,
                     calls |-> <<newcall,
                                 Call("PyUnicode_CopyCharacters",
                                      <<new.res, CInt(0), unicode, CInt(0), CInt(size)>>,
                                      CInt(size), NoErr)>>]

unicode_concat ==
    /\ Callable
    /\ \E left \in CallerObjects, right \in CallerObjects, nomem \in BOOLEAN :
         LET o == PyUnicode_Concat(NULLABLE(left), NULLABLE(right), FreshId, nomem)
         IN  Return("unicode_concat", <<left, right>>,
                    <<Call("PyUnicode_Concat", <<NULLABLE(left), NULLABLE(right)>>,
                           o.res, o.err)>>,
                    o.res, o.err)

\* a slip: an empty string is filled too
unicode_new_fills_empty_too(size, maxchar) == size >= 0 /\ maxchar <= MAX_UNICODE

\* whether unicode_new fills the string PyUnicode_New returned
unicode_new_fills(size, maxchar) == size > 0 /\ maxchar <= MAX_UNICODE

unicode_new ==
    /\ Callable
    /\ \E size \in {-1, 0, 1, 2}, maxchar \in {97, 1114112}, nomem \in BOOLEAN :
         LET a == <<CInt(size), CInt(maxchar)>>
             new == PyUnicode_New(size, maxchar, FreshId, nomem)
             newcall == Call("PyUnicode_New", a, new.res, new.err)
         IN  IF IsNULL(new.res)
               THEN Return("unicode_new", a, <<newcall>>, NULL, new.err)
             ELSE IF unicode_new_fills(size, maxchar)
               THEN LET f == PyUnicode_Fill(new.res, 0, size, maxchar)
                        fillcall == Call("PyUnicode_Fill",
                                         <<new.res, CInt(0), CInt(size), CInt(maxchar)>>,
                                         CInt(f.n), f.err)
                    IN  IF f.n < 0
                          THEN Return("unicode_new", a, <<newcall, fillcall>>,
                                      NULL, f.err)
                          ELSE Return("unicode_new", a, <<newcall, fillcall>>,
                                      f.obj, f.err)
             ELSE Return("unicode_new", a, <<newcall>>, new.res, new.err)

unicode_fill ==
    /\ Callable
    /\ \E to \in CallerObjects, start \in {-1, 0, 1}, length \in {1, 3},
          fill_char \in {120}, nomem \in BOOLEAN :
         LET a == <<to, CInt(start), CInt(length), CInt(fill_char)>>
             to_copy == unicode_copy(NULLABLE(to), nomem)
         IN  IF IsNULL(to_copy.res) /\ ~IsNULL(NULLABLE(to))
               THEN Return("unicode_fill", a, to_copy.calls, NULL, to_copy.err)
             ELSE IF IsNULL(to_copy.res)
               \* PyUnicode_Fill(NULL, ...) reads through the NULL pointer
               THEN Abort("unicode_fill", a,
                          <<Call("PyUnicode_Fill",
                                 <<NULL, CInt(start), CInt(length), CInt(fill_char)>>,
                                 NULL, NoErr)>>)
             ELSE LET f == PyUnicode_Fill(to_copy.res, start, length, fill_char)
                      c == Append(to_copy.calls,
                                  Call("PyUnicode_Fill",
                                       <<to_copy.res, CInt(start), CInt(length),
                                         CInt(fill_char)>>,
                                       CInt(f.n), f.err))
                  IN  IF f.n = -1 /\ PyErr_Occurred(f.err)
                        THEN Return("unicode_fill", a, c, NULL, f.err)
                        ELSE Return("unicode_fill", a, c,
                                    Py_BuildValue_Nn(f.obj, f.n), f.err)

\* whether unicode_resize fills the tail of the resized copy
unicode_resize_fills(obj, length) ==
    ~IsNULL(obj) /\ obj.k = "str" /\ length > Len(obj.s)

unicode_resize ==
    /\ Callable
    /\ \E obj0 \in CallerObjects, length \in {-1, 0, 1, 3},
          nomem \in BOOLEAN, nomem2 \in BOOLEAN :
         LET a == <<obj0, CInt(length)>>
             obj == NULLABLE(obj0)
             copy == unicode_copy(obj, nomem)
         IN  IF IsNULL(copy.res) /\ ~IsNULL(obj)
               THEN /\ ~nomem2
                    /\ Return("unicode_resize", a, copy.calls, NULL, copy.err)
             ELSE LET r == PyUnicode_Resize(copy.res, length, nomem2)
                      c1 == Append(copy.calls,
                                   Call("PyUnicode_Resize", <<copy.res, CInt(length)>>,
                                        CInt(r.n), r.err))
                  IN  IF r.n = -1 /\ PyErr_Occurred(r.err)
                        THEN Return("unicode_resize", a, c1, NULL, r.err)
                      ELSE IF unicode_resize_fills(obj, length)
                        THEN LET f == PyUnicode_Fill(r.obj, Len(obj.s), length, 0)
                                 c2 == Append(c1,
                                         Call("PyUnicode_Fill",
                                              <<r.obj, CInt(Len(obj.s)), CInt(length),
                                                CInt(0)>>,
                                              CInt(f.n), f.err))
                             IN  IF f.n < 0
                                   THEN Return("unicode_resize", a, c2, NULL, f.err)
                                   ELSE Return("unicode_resize", a, c2,
                                               Py_BuildValue_Nn(f.obj, r.n), f.err)
                      ELSE Return("unicode_resize", a, c1,
                                  Py_BuildValue_Nn(r.obj, r.n), r.err)

unicode_append ==
    /\ Callable
    /\ \E left0 \in CallerObjects, right0 \in CallerObjects,
          nomem \in BOOLEAN, nomem2 \in BOOLEAN :
         LET a == <<left0, right0>>
             left == NULLABLE(left0)
             right == NULLABLE(right0)
             left_copy == unicode_copy(left, nomem)
         IN  IF IsNULL(left_copy.res) /\ ~IsNULL(left)
               THEN /\ ~nomem2
                    /\ Return("unicode_append", a, left_copy.calls, NULL,
                              left_copy.err)
               ELSE LET o == PyUnicode_Append(left_copy.res, right, nomem2)
                    IN  Return("unicode_append", a,
                               Append(left_copy.calls,
                                      Call("PyUnicode_Append", <<left_copy.res, right>>,
                                           o.obj, o.err)),
                               o.obj, o.err)

unicode_interninplace ==
    /\ Callable
    /\ \E arg0 \in CallerObjects, debug \in BOOLEAN :
         LET arg == NULLABLE(arg0)
             o == PyUnicode_InternInPlace(arg, debug)
             c == <<Call("PyUnicode_InternInPlace", <<arg>>, o.obj, NoErr)>>
         IN  IF o.abort
               THEN Abort("unicode_interninplace", <<arg0>>, c)
               ELSE Return("unicode_interninplace", <<arg0>>, c, o.obj, NoErr)

-----------------------------------------------------------------------------
(* unicode_aswidechar: PyUnicode_AsWideChar into a buffer of buflen        *)
(* wchar_t, read back with PyUnicode_FromWideChar                          *)

\* the str objects a caller passes to unicode_aswidechar: every string of
\* at most MaxLen characters over NUL, 'a' and 'b'
WideAlphabet == {0, 97, 98}
WideStrings == UNION {[1..n -> WideAlphabet] : n \in 0..MaxLen}
WideObjects == {Str(s, 2) : s \in WideStrings} \cup {Py_None, Bytes(4)}

\* PyMem_New(wchar_t, buflen): unwritten memory, or NULL
PyMem_New(buflen, nomem) ==
    IF buflen < 0 \/ nomem
      THEN [null |-> TRUE, mem |-> <<>>]
      ELSE [null |-> FALSE, mem |-> Filled(buflen, Indeterminate)]

\* PyUnicode_AsWideChar(unicode, w, size): copies the characters of the
\* str into w, with the terminating NUL when the buffer has room for it,
\* and returns the number of characters copied, the NUL not counted
PyUnicode_AsWideChar(unicode, w, size) ==
    IF IsNULL(unicode)
      THEN [n |-> -1, w |-> w, err |-> Raised("SystemError", "PyUnicode_AsWideChar")]
    ELSE IF unicode.k # "str"
      THEN [n |-> -1, w |-> w, err |-> Raised("TypeError", "PyUnicode_AsWideChar")]
    ELSE LET len == Len(unicode.s)
             res == IF size > len THEN len ELSE size
             ncopy == IF size > len THEN len + 1 ELSE size
             data == unicode.s \o <<0>>
         IN  [n |-> res,
              w |-> [i \in 1..Len(w) |-> IF i <= ncopy THEN data[i] ELSE w[i]],
              err |-> NoErr]

\* sizeof(wchar_t) of the build
WcharSizes == {2, 4}

\* U+D800..U+DBFF and U+DC00..U+DFFF
IsHighSurrogate(ch) == ch >= 55296 /\ ch <= 56319
IsLowSurrogate(ch) == ch >= 56320 /\ ch <= 57343

RECURSIVE JoinSurrogates(_)
\* the code points of 16-bit wide characters: a high surrogate followed by
\* a low one is one code point above U+FFFF
JoinSurrogates(w) ==
    IF Len(w) = 0 THEN <<>>
    ELSE IF Len(w) >= 2 /\ IsHighSurrogate(w[1]) /\ IsLowSurrogate(w[2])
      THEN <<65536 + (w[1] - 55296) * 1024 + (w[2] - 56320)>>
           \o JoinSurrogates(SubSeq(w, 3, Len(w)))
    ELSE <<w[1]>> \o JoinSurrogates(Tail(w))

\* PyUnicode_FromWideChar(w, size), size >= 0: a new str of the first
\* `size` wide characters.  Where wchar_t has 16 bits surrogate pairs are
\* joined; where it has 32 bits a wide character above 0x10ffff is an
\* error.  Unwritten memory is read as it is.
PyUnicode_FromWideChar(w, size, sizeof_wchar_t, id, nomem) ==
    LET chars == SubSeq(w, 1, size)
    IN  IF \E i \in 1..size : chars[i] > MAX_UNICODE
          THEN [res |-> NULL, err |-> Raised("ValueError", "PyUnicode_FromWideChar")]
        ELSE IF nomem /\ size > 0
          THEN [res |-> NULL, err |-> Raised("MemoryError", "PyUnicode_FromWideChar")]
        ELSE [res |-> Str(IF sizeof_wchar_t = 2 THEN JoinSurrogates(chars) ELSE chars,
                          id),
              err |-> NoErr]

\* a slip: the terminating NUL is never read back
unicode_aswidechar_buflen_no_nul(size, buflen) == size

\* the number of wide characters unicode_aswidechar reads back
unicode_aswidechar_buflen(size, buflen) ==
    IF size < buflen THEN size + 1 ELSE size

unicode_aswidechar ==
    /\ Callable
    /\ \E unicode0 \in WideObjects, buflen \in -1..MaxBuf,
          nomem \in BOOLEAN, nomem2 \in BOOLEAN, sizeof_wchar_t \in WcharSizes :
         LET a == <<unicode0, CInt(buflen)>>
             unicode == NULLABLE(unicode0)
             buffer == PyMem_New(buflen, nomem)
         IN  IF buffer.null
               THEN /\ ~nomem2
                    /\ Return("unicode_aswidechar", a, <<>>, NULL,
                              Raised("MemoryError", "PyErr_NoMemory"))
               ELSE LET w == PyUnicode_AsWideChar(unicode, buffer.mem, buflen)
                        c1 == <<Call("PyUnicode_AsWideChar", <<unicode, CInt(buflen)>>,
                                     CInt(w.n), w.err)>>
                    IN  IF w.n = -1
                          THEN /\ ~nomem2
                               /\ Return("unicode_aswidechar", a, c1, NULL, w.err)
                          ELSE LET n == unicode_aswidechar_buflen(w.n, buflen)
                                   r == PyUnicode_FromWideChar(w.w, n, sizeof_wchar_t, FreshId, nomem2)
                                   c2 == Append(c1, Call("PyUnicode_FromWideChar",
                                                         <<CInt(n)>>, r.res, r.err))
                               IN  IF IsNULL(r.res)
                                     THEN Return("unicode_aswidechar", a, c2, NULL, r.err)
                                     ELSE Return("unicode_aswidechar", a, c2,
                                                 Py_BuildValue_Nn(r.res, w.n), r.err)

-----------------------------------------------------------------------------
(* test_unicode_compare_with_ascii *)

\* "str\0", the four characters the test builds its string from
StrNul == <<115, 116, 114, 0>>
\* "str", the C string it is compared with
StrC == <<115, 116, 114>>
\* a C string as an argument of a call
CChars(s) == [k |-> "cstr", n |-> 0, s |-> s, id |-> 0]

\* PyUnicode_FromStringAndSize(u, size): a new str, or NULL
PyUnicode_FromStringAndSize(u, size, id, nomem) ==
    IF nomem
      THEN [res |-> NULL, err |-> Raised("MemoryError", "PyUnicode_FromStringAndSize")]
      ELSE [res |-> Str(SubSeq(u, 1, size), id), err |-> NoErr]

\* PyUnicode_CompareWithASCIIString(uni, string): -1, 0 or 1 as uni is
\* less than, equal to or greater than the NUL-terminated string
RECURSIVE CompareFrom(_, _, _)
CompareFrom(u, c, i) ==
    IF i > Len(u) /\ i > Len(c) THEN 0
    ELSE IF i > Len(u) THEN -1
    ELSE IF i > Len(c) THEN 1
    ELSE IF u[i] < c[i] THEN -1
    ELSE IF u[i] > c[i] THEN 1
    ELSE CompareFrom(u, c, i + 1)

PyUnicode_CompareWithASCIIString(uni, string) == CompareFrom(uni.s, string, 1)

\* what the comparison may answer: what the API documents, and the other
\* answers of an API that is broken, which the test is there to catch
CompareAnswers(uni, string) ==
    {PyUnicode_CompareWithASCIIString(uni, string)} \cup {-1, 0, 1}

\* a slip: the failing path forgets Py_DECREF(py_s)
test_unicode_compare_with_ascii_released_on_success(res) == IF res = 0 THEN 0 ELSE 1

\* how often Py_DECREF(py_s) runs on the path taken for the answer: once,
\* before the answer is looked at
test_unicode_compare_with_ascii_released(res) == 1

\* a slip: the test written as `if (result)`
test_unicode_compare_with_ascii_fails_when_unequal(res) == res # 0

\* what the test does with the answer: TRUE when it raises AssertionError
test_unicode_compare_with_ascii_fails(res) == res = 0

test_unicode_compare_with_ascii ==
    /\ Callable
    /\ \E nomem \in BOOLEAN :
         LET py_s == PyUnicode_FromStringAndSize(StrNul, 4, FreshId, nomem)
             c1 == <<Call("PyUnicode_FromStringAndSize", <<CInt(4)>>,
                          py_s.res, py_s.err)>>
         IN  IF IsNULL(py_s.res)
               THEN ReturnOwning("test_unicode_compare_with_ascii", <<>>, c1,
                                 NULL, py_s.err, 0)
               ELSE \E res \in CompareAnswers(py_s.res, StrC) :
                      LET c2 == Append(c1, Call("PyUnicode_CompareWithASCIIString",
                                                <<py_s.res, CChars(StrC)>>, CInt(res), NoErr))
                          \* py_s is created with one reference
                          held == 1 - test_unicode_compare_with_ascii_released(res)
                      IN  IF test_unicode_compare_with_ascii_fails(res)
                            THEN ReturnOwning("test_unicode_compare_with_ascii", <<>>,
                                   c2, NULL,
                                   Raised("AssertionError",
                                          "test_unicode_compare_with_ascii"),
                                   held)
                            ELSE ReturnOwning("test_unicode_compare_with_ascii", <<>>,
                                   c2, Py_None, NoErr, held)

-----------------------------------------------------------------------------
(* test_widechar: U+10ABCD built from wide characters and from UTF-8, and  *)
(* where wchar_t has 32 bits the wide character 0x110000, which must fail  *)

\* the wide characters of U+10ABCD and their number: one wchar_t of 32
\* bits, or the surrogate pair 0xDBEA 0xDFCD; the arrays end in a zero
wtext(sizeof_wchar_t) ==
    IF sizeof_wchar_t = 4 THEN <<1092557, 0>> ELSE <<56298, 57293, 0>>

\* a slip: one wide character whatever its size
wtextlen_always_one(sizeof_wchar_t) == 1

wtextlen(sizeof_wchar_t) == IF sizeof_wchar_t = 4 THEN 1 ELSE 2

\* a wide string as an argument of a call
WChars(s) == [k |-> "wstr", n |-> 0, s |-> s, id |-> 0]

\* the wide character 0x110000
invalid == <<1114112>>
\* "\xf4\x8a\xaf\x8d", the UTF-8 encoding of U+10ABCD
Utf8Text == <<244, 138, 175, 141>>

RECURSIVE Utf8Decode(_)
\* the code points of well-formed UTF-8
Utf8Decode(b) ==
    IF Len(b) = 0 THEN <<>>
    ELSE IF b[1] < 128
      THEN <<b[1]>> \o Utf8Decode(SubSeq(b, 2, Len(b)))
    ELSE IF b[1] < 224
      THEN <<(b[1] - 192) * 64 + (b[2] - 128)>> \o Utf8Decode(SubSeq(b, 3, Len(b)))
    ELSE IF b[1] < 240
      THEN <<(b[1] - 224) * 4096 + (b[2] - 128) * 64 + (b[3] - 128)>>
           \o Utf8Decode(SubSeq(b, 4, Len(b)))
    ELSE <<(b[1] - 240) * 262144 + (b[2] - 128) * 4096 + (b[3] - 128) * 64
           + (b[4] - 128)>>
         \o Utf8Decode(SubSeq(b, 5, Len(b)))

\* PyUnicode_FromString(u): a new str decoded from UTF-8, or NULL
PyUnicode_FromString(u, id, nomem) ==
    IF nomem
      THEN [res |-> NULL, err |-> Raised("MemoryError", "PyUnicode_FromString")]
      ELSE [res |-> Str(Utf8Decode(u), id), err |-> NoErr]

PyUnicode_GET_LENGTH(obj) == Len(obj.s)

\* PyUnicode_Compare(left, right) of two str: -1, 0 or 1
PyUnicode_Compare(left, right) == CompareFrom(left.s, right.s, 1)

\* what PyUnicode_FromWideChar may answer: what the API documents, a failed
\* allocation, and the answers of an API that is broken, which the test is
\* there to catch (the wide characters taken as they are, or replaced)
FromWideCharAnswers(w, size, sizeof_wchar_t, id) ==
    {PyUnicode_FromWideChar(w, size, sizeof_wchar_t, id, nomem) : nomem \in BOOLEAN}
    \cup {[res |-> Str(SubSeq(w, 1, size), id), err |-> NoErr],
          [res |-> Str(<<65533>>, id), err |-> NoErr]}

\* what PyUnicode_Compare may answer: what the API documents, and a failure
CompareOutcomes(left, right) ==
    {[n |-> PyUnicode_Compare(left, right), err |-> NoErr],
     [n |-> -1, err |-> Raised("MemoryError", "PyUnicode_Compare")]}

Py_DECREF(obj) == Call("Py_DECREF", <<obj>>, NULL, NoErr)

test_widechar_lengths_differ(wide, utf8) ==
    PyUnicode_GET_LENGTH(wide) # PyUnicode_GET_LENGTH(utf8)

\* a slip: the test written as `if (wide != NULL) PyErr_Clear();`
test_widechar_invalid_failed_when_not_null(wide) == ~IsNULL(wide)

\* the call with the invalid wide character failed, as it must
test_widechar_invalid_failed(wide) == IsNULL(wide)

\* the second half, compiled only where wchar_t has 32 bits
test_widechar_invalid(c) ==
    \E bad \in FromWideCharAnswers(invalid, 1, 4, FreshId + 2) :
        LET c4 == Append(c, Call("PyUnicode_FromWideChar",
                                 <<WChars(invalid), CInt(1)>>, bad.res, bad.err))
        IN  IF test_widechar_invalid_failed(bad.res)
              THEN \* PyErr_Clear()
                   ReturnOwning("test_widechar", <<>>, c4, Py_None, NoErr,
                                IF IsNULL(bad.res) THEN 0 ELSE 1)
              ELSE ReturnOwning("test_widechar", <<>>, c4, NULL,
                                Raised("AssertionError", "test_widechar"),
                                IF IsNULL(bad.res) THEN 0 ELSE 1)

test_widechar ==
    /\ Callable
    /\ \E sizeof_wchar_t \in WcharSizes :
       \E wide \in FromWideCharAnswers(wtext(sizeof_wchar_t), wtextlen(sizeof_wchar_t),
                                       sizeof_wchar_t, FreshId) :
         LET c1 == <<Call("PyUnicode_FromWideChar",
                          <<WChars(wtext(sizeof_wchar_t)), CInt(wtextlen(sizeof_wchar_t))>>,
                          wide.res, wide.err)>>
         IN  IF IsNULL(wide.res)
               THEN ReturnOwning("test_widechar", <<>>, c1, NULL, wide.err, 0)
               ELSE \E nomem \in BOOLEAN :
                 LET utf8 == PyUnicode_FromString(Utf8Text, FreshId + 1, nomem)
                     c2 == Append(c1, Call("PyUnicode_FromString", <<CChars(Utf8Text)>>,
                                           utf8.res, utf8.err))
                     both == <<Py_DECREF(wide.res), Py_DECREF(utf8.res)>>
                 IN  IF IsNULL(utf8.res)
                       THEN ReturnOwning("test_widechar", <<>>,
                                         Append(c2, Py_DECREF(wide.res)),
                                         NULL, utf8.err, 0)
                     ELSE IF test_widechar_lengths_differ(wide.res, utf8.res)
                       THEN ReturnOwning("test_widechar", <<>>, c2 \o both, NULL,
                                         Raised("AssertionError", "test_widechar"), 0)
                     ELSE \E cmp \in CompareOutcomes(wide.res, utf8.res) :
                       LET c3 == Append(c2, Call("PyUnicode_Compare",
                                                 <<wide.res, utf8.res>>,
                                                 CInt(cmp.n), cmp.err))
                       IN  IF cmp.n # 0
                             THEN ReturnOwning("test_widechar", <<>>, c3 \o both, NULL,
                                    IF PyErr_Occurred(cmp.err)
                                      THEN cmp.err
                                      ELSE Raised("AssertionError", "test_widechar"),
                                    0)
                           ELSE IF sizeof_wchar_t = 4
                             THEN test_widechar_invalid(c3 \o both)
                           ELSE ReturnOwning("test_widechar", <<>>, c3 \o both,
                                             Py_None, NoErr, 0)

-----------------------------------------------------------------------------
(* PyUnicode_FromFormat, as far as test_string_from_format uses it: the    *)
(* conversions %%, c, d, i, u, x, X, o, s, U, V, S, R, A with the flag 0,   *)
(* a width, a precision and the length modifiers l, ll, z, t, j.  Text is  *)
(* a TLA+ string.  Unsigned conversions are given arguments >= 0 only.     *)

CStr(s) == [k |-> "cstr", n |-> 0, s |-> s, id |-> 0]
WStr(s) == [k |-> "wstr", n |-> 0, s |-> s, id |-> 0]

\* the character of f at position i, "" past the end (the terminating NUL)
Ch(f, i) == IF i >= 1 /\ i <= Len(f) THEN SubSeq(f, i, i) ELSE ""

DecimalDigits == "0123456789"
IsDigit(c) == \E d \in 1..10 : c = Ch(DecimalDigits, d)
DigitValue(c) == CHOOSE d \in 0..9 : c = Ch(DecimalDigits, d + 1)

RECURSIVE Repeat(_, _)
Repeat(c, n) == IF n <= 0 THEN "" ELSE c \o Repeat(c, n - 1)

RECURSIVE Digits(_, _, _)
\* the digits of n >= 0 in the base, most significant first
Digits(n, base, alphabet) ==
    IF n < base THEN Ch(alphabet, n + 1)
    ELSE Digits(n \div base, base, alphabet) \o Ch(alphabet, (n % base) + 1)

\* sprintf(buffer, "%<conv>", n) without flags, width or precision
Sprintf(conv, n) ==
    CASE conv \in {"d", "i"} ->
           IF n < 0 THEN "-" \o Digits(-n, 10, DecimalDigits)
                    ELSE Digits(n, 10, DecimalDigits)
      [] conv = "u" -> Digits(n, 10, DecimalDigits)
      [] conv = "x" -> Digits(n, 16, "0123456789abcdef")
      [] conv = "X" -> Digits(n, 16, "0123456789ABCDEF")
      [] conv = "o" -> Digits(n, 8, "01234567")

RECURSIVE FlagsEnd(_, _)
FlagsEnd(f, i) == IF Ch(f, i) \in {"-", "0"} THEN FlagsEnd(f, i + 1) ELSE i

RECURSIVE DigitsEnd(_, _)
DigitsEnd(f, i) == IF IsDigit(Ch(f, i)) THEN DigitsEnd(f, i + 1) ELSE i

RECURSIVE Number(_, _, _)
\* the decimal number written in f[from .. to-1]
Number(f, from, to) ==
    IF to <= from THEN 0
    ELSE Number(f, from, to - 1) * 10 + DigitValue(Ch(f, to - 1))

\* the conversion specification that starts with the '%' at f[i]: flags,
\* width and precision (-1: none), length modifier, conversion character
\* and the position after it
ParseSpec(f, i) ==
    LET a == i + 1
        fe == FlagsEnd(f, a)
        we == DigitsEnd(f, fe)
        dot == Ch(f, we) = "."
        pe == IF dot THEN DigitsEnd(f, we + 1) ELSE we
        me == IF Ch(f, pe) = "l" /\ Ch(f, pe + 1) = "l" THEN pe + 2
              ELSE IF Ch(f, pe) \in {"l", "z", "t", "j"} THEN pe + 1
              ELSE pe
    IN  IF Ch(f, a) = "%"
          THEN [zero |-> FALSE, ljust |-> FALSE, width |-> -1, precision |-> -1,
                sizemod |-> "", conv |-> "%", plain |-> TRUE, next |-> a + 1]
          ELSE [zero |-> \E j \in a..(fe - 1) : Ch(f, j) = "0",
                ljust |-> \E j \in a..(fe - 1) : Ch(f, j) = "-",
                width |-> IF we > fe THEN Number(f, fe, we) ELSE -1,
                precision |-> IF dot /\ pe > we + 1 THEN Number(f, we + 1, pe)
                              ELSE -1,
                sizemod |-> SubSeq(f, pe, me - 1),
                conv |-> Ch(f, me),
                plain |-> FALSE,
                next |-> me + 1]

IntegerConversions == {"d", "i", "u", "x", "X", "o"}
ObjectConversions == {"U", "S", "R", "A"}

\* the specifications PyUnicode_FromFormat accepts
ValidSpec(sp) ==
    CASE sp.conv = "%" -> sp.plain
      [] sp.conv \in IntegerConversions -> TRUE
      [] sp.conv = "c" -> sp.sizemod = "" /\ sp.width < 0 /\ sp.precision < 0
      [] sp.conv \in {"s", "V"} -> sp.sizemod \in {"", "l"}
      [] sp.conv \in ObjectConversions -> sp.sizemod = ""
      [] OTHER -> FALSE

\* an integer: the digits padded with zeros to the precision, the sign in
\* front, the whole padded to the width, with zeros when the 0 flag is set
FormatInteger(sp, n) ==
    LET buffer == Sprintf(sp.conv, n)
        sign == IF Ch(buffer, 1) = "-" THEN 1 ELSE 0
        len == Len(buffer) - sign
        precision1 == Max(sp.precision, len)
        width == Max(sp.width, precision1 + sign)
        precision == IF sp.zero /\ ~sp.ljust THEN width - sign ELSE precision1
        spacepad == Max(width - precision - sign, 0)
        zeropad == Max(precision - len, 0)
    IN  (IF sp.ljust THEN "" ELSE Repeat(" ", spacepad))
        \o (IF sign = 1 THEN "-" ELSE "")
        \o Repeat("0", zeropad)
        \o SubSeq(buffer, sign + 1, Len(buffer))
        \o (IF sp.ljust THEN Repeat(" ", spacepad) ELSE "")

\* a string: cut to the precision, then padded with spaces to the width
FormatString(sp, text) ==
    LET length == IF sp.precision = -1 \/ sp.precision >= Len(text)
                    THEN Len(text) ELSE sp.precision
        fill == Max(sp.width - length, 0)
    IN  (IF sp.ljust THEN "" ELSE Repeat(" ", fill))
        \o SubSeq(text, 1, length)
        \o (IF sp.ljust THEN Repeat(" ", fill) ELSE "")

\* str(), repr() and ascii() of the objects the test passes
PyObject_Str(obj) == IF obj.k = "None" THEN "None" ELSE obj.s
PyObject_Repr(obj) == IF obj.k = "None" THEN "None" ELSE "'" \o obj.s \o "'"

\* the characters 'a' (97) to 'z' (122), the ones given to %c
LowercaseLetters == "abcdefghijklmnopqrstuvwxyz"

\* the text one conversion writes; argv are the arguments not yet consumed
FormatArg(sp, argv) ==
    CASE sp.conv = "%" -> "%"
      [] sp.conv = "c" -> Ch(LowercaseLetters, argv[1].n - 96)
      [] sp.conv \in IntegerConversions -> FormatInteger(sp, argv[1].n)
      [] sp.conv = "s" -> FormatString(sp, argv[1].s)
      [] sp.conv = "U" -> FormatString(sp, argv[1].s)
      [] sp.conv = "V" -> FormatString(sp, IF IsNULL(argv[1]) THEN argv[2].s
                                            ELSE argv[1].s)
      [] sp.conv = "S" -> FormatString(sp, PyObject_Str(argv[1]))
      [] sp.conv \in {"R", "A"} -> FormatString(sp, PyObject_Repr(argv[1]))

\* the number of arguments a conversion consumes
ArgCount(sp) == CASE sp.conv = "%" -> 0 [] sp.conv = "V" -> 2 [] OTHER -> 1

RECURSIVE FormatFrom(_, _, _, _)
FormatFrom(f, i, argv, acc) ==
    IF i > Len(f) THEN [raises |-> FALSE, text |-> acc]
    ELSE IF Ch(f, i) # "%" THEN FormatFrom(f, i + 1, argv, acc \o Ch(f, i))
    ELSE LET sp == ParseSpec(f, i)
         IN  IF ~ValidSpec(sp) THEN [raises |-> TRUE, text |-> ""]
             ELSE FormatFrom(f, sp.next, SubSeq(argv, ArgCount(sp) + 1, Len(argv)),
                             acc \o FormatArg(sp, argv))

\* PyUnicode_FromFormat(format, arg1, arg2): the text, or SystemError for
\* a conversion it does not accept
PyUnicode_FromFormat(format, arg1, arg2) == FormatFrom(format, 1, <<arg1, arg2>>, "")

-----------------------------------------------------------------------------
(* test_string_from_format: the checks, in the order they are written      *)

\* the str the test creates first, PyUnicode_FromString("None")
unicode == Str("None", 5)

\* EXPECTED: a literal, or NULL where SystemError is expected
Gives(s) == [null |-> FALSE, s |-> s]
Raises == [null |-> TRUE, s |-> ""]

\* CHECK_FORMAT_2(FORMAT, EXPECTED, ARG1, ARG2) at a line of the file;
\* CHECK_FORMAT_1 and CHECK_FORMAT_0 pass 0 for the arguments they lack
Check(line, format, expected, arg1, arg2) ==
    [line |-> line, FORMAT |-> format, EXPECTED |-> expected,
     ARG1 |-> arg1, ARG2 |-> arg2]

\* the CHECK_FORMAT lines of the function, top to bottom
FormatCheckLines ==
  <<
    Check(1119, "%u %? %u", Raises, CInt(1), CInt(2)),
    Check(1122, "%%", Gives("%"), CInt(0), CInt(0)),
    Check(1123, "%0%", Raises, CInt(0), CInt(0)),
    Check(1124, "%00%", Raises, CInt(0), CInt(0)),
    Check(1125, "%2%", Raises, CInt(0), CInt(0)),
    Check(1126, "%02%", Raises, CInt(0), CInt(0)),
    Check(1127, "%.0%", Raises, CInt(0), CInt(0)),
    Check(1128, "%.2%", Raises, CInt(0), CInt(0)),
    Check(1131, "%c", Gives("c"), CInt(99), CInt(0)),
    Check(1132, "%0c", Gives("c"), CInt(99), CInt(0)),
    Check(1133, "%00c", Gives("c"), CInt(99), CInt(0)),
    Check(1134, "%2c", Raises, CInt(99), CInt(0)),
    Check(1135, "%02c", Raises, CInt(99), CInt(0)),
    Check(1136, "%.0c", Raises, CInt(99), CInt(0)),
    Check(1137, "%.2c", Raises, CInt(99), CInt(0)),
    Check(1140, "%d", Gives("123"), CInt(123), CInt(0)),
    Check(1141, "%i", Gives("123"), CInt(123), CInt(0)),
    Check(1142, "%u", Gives("123"), CInt(123), CInt(0)),
    Check(1143, "%x", Gives("7b"), CInt(123), CInt(0)),
    Check(1144, "%X", Gives("7B"), CInt(123), CInt(0)),
    Check(1145, "%o", Gives("173"), CInt(123), CInt(0)),
    Check(1146, "%ld", Gives("123"), CInt(123), CInt(0)),
    Check(1147, "%li", Gives("123"), CInt(123), CInt(0)),
    Check(1148, "%lu", Gives("123"), CInt(123), CInt(0)),
    Check(1149, "%lx", Gives("7b"), CInt(123), CInt(0)),
    Check(1150, "%lX", Gives("7B"), CInt(123), CInt(0)),
    Check(1151, "%lo", Gives("173"), CInt(123), CInt(0)),
    Check(1152, "%lld", Gives("123"), CInt(123), CInt(0)),
    Check(1153, "%lli", Gives("123"), CInt(123), CInt(0)),
    Check(1154, "%llu", Gives("123"), CInt(123), CInt(0)),
    Check(1155, "%llx", Gives("7b"), CInt(123), CInt(0)),
    Check(1156, "%llX", Gives("7B"), CInt(123), CInt(0)),
    Check(1157, "%llo", Gives("173"), CInt(123), CInt(0)),
    Check(1158, "%zd", Gives("123"), CInt(123), CInt(0)),
    Check(1159, "%zi", Gives("123"), CInt(123), CInt(0)),
    Check(1160, "%zu", Gives("123"), CInt(123), CInt(0)),
    Check(1161, "%zx", Gives("7b"), CInt(123), CInt(0)),
    Check(1162, "%zX", Gives("7B"), CInt(123), CInt(0)),
    Check(1163, "%zo", Gives("173"), CInt(123), CInt(0)),
    Check(1164, "%td", Gives("123"), CInt(123), CInt(0)),
    Check(1165, "%ti", Gives("123"), CInt(123), CInt(0)),
    Check(1166, "%tu", Gives("123"), CInt(123), CInt(0)),
    Check(1167, "%tx", Gives("7b"), CInt(123), CInt(0)),
    Check(1168, "%tX", Gives("7B"), CInt(123), CInt(0)),
    Check(1169, "%to", Gives("173"), CInt(123), CInt(0)),
    Check(1170, "%jd", Gives("123"), CInt(123), CInt(0)),
    Check(1171, "%ji", Gives("123"), CInt(123), CInt(0)),
    Check(1172, "%ju", Gives("123"), CInt(123), CInt(0)),
    Check(1173, "%jx", Gives("7b"), CInt(123), CInt(0)),
    Check(1174, "%jX", Gives("7B"), CInt(123), CInt(0)),
    Check(1175, "%jo", Gives("173"), CInt(123), CInt(0)),
    Check(1177, "%d", Gives("-123"), CInt(-123), CInt(0)),
    Check(1178, "%i", Gives("-123"), CInt(-123), CInt(0)),
    Check(1179, "%ld", Gives("-123"), CInt(-123), CInt(0)),
    Check(1180, "%li", Gives("-123"), CInt(-123), CInt(0)),
    Check(1181, "%lld", Gives("-123"), CInt(-123), CInt(0)),
    Check(1182, "%lli", Gives("-123"), CInt(-123), CInt(0)),
    Check(1183, "%zd", Gives("-123"), CInt(-123), CInt(0)),
    Check(1184, "%zi", Gives("-123"), CInt(-123), CInt(0)),
    Check(1185, "%td", Gives("-123"), CInt(-123), CInt(0)),
    Check(1186, "%ti", Gives("-123"), CInt(-123), CInt(0)),
    Check(1187, "%jd", Gives("-123"), CInt(-123), CInt(0)),
    Check(1188, "%ji", Gives("-123"), CInt(-123), CInt(0)),
    Check(1191, "%1d", Gives("123"), CInt(123), CInt(0)),
    Check(1192, "%1i", Gives("123"), CInt(123), CInt(0)),
    Check(1193, "%1u", Gives("123"), CInt(123), CInt(0)),
    Check(1194, "%1ld", Gives("123"), CInt(123), CInt(0)),
    Check(1195, "%1li", Gives("123"), CInt(123), CInt(0)),
    Check(1196, "%1lu", Gives("123"), CInt(123), CInt(0)),
    Check(1197, "%1lld", Gives("123"), CInt(123), CInt(0)),
    Check(1198, "%1lli", Gives("123"), CInt(123), CInt(0)),
    Check(1199, "%1llu", Gives("123"), CInt(123), CInt(0)),
    Check(1200, "%1zd", Gives("123"), CInt(123), CInt(0)),
    Check(1201, "%1zi", Gives("123"), CInt(123), CInt(0)),
    Check(1202, "%1zu", Gives("123"), CInt(123), CInt(0)),
    Check(1203, "%1x", Gives("7b"), CInt(123), CInt(0)),
    Check(1205, "%1d", Gives("-123"), CInt(-123), CInt(0)),
    Check(1206, "%1i", Gives("-123"), CInt(-123), CInt(0)),
    Check(1207, "%1ld", Gives("-123"), CInt(-123), CInt(0)),
    Check(1208, "%1li", Gives("-123"), CInt(-123), CInt(0)),
    Check(1209, "%1lld", Gives("-123"), CInt(-123), CInt(0)),
    Check(1210, "%1lli", Gives("-123"), CInt(-123), CInt(0)),
    Check(1211, "%1zd", Gives("-123"), CInt(-123), CInt(0)),
    Check(1212, "%1zi", Gives("-123"), CInt(-123), CInt(0)),
    Check(1215, "%5d", Gives("  123"), CInt(123), CInt(0)),
    Check(1216, "%5i", Gives("  123"), CInt(123), CInt(0)),
    Check(1217, "%5u", Gives("  123"), CInt(123), CInt(0)),
    Check(1218, "%5ld", Gives("  123"), CInt(123), CInt(0)),
    Check(1219, "%5li", Gives("  123"), CInt(123), CInt(0)),
    Check(1220, "%5lu", Gives("  123"), CInt(123), CInt(0)),
    Check(1221, "%5lld", Gives("  123"), CInt(123), CInt(0)),
    Check(1222, "%5lli", Gives("  123"), CInt(123), CInt(0)),
    Check(1223, "%5llu", Gives("  123"), CInt(123), CInt(0)),
    Check(1224, "%5zd", Gives("  123"), CInt(123), CInt(0)),
    Check(1225, "%5zi", Gives("  123"), CInt(123), CInt(0)),
    Check(1226, "%5zu", Gives("  123"), CInt(123), CInt(0)),
    Check(1227, "%5x", Gives("   7b"), CInt(123), CInt(0)),
    Check(1229, "%5d", Gives(" -123"), CInt(-123), CInt(0)),
    Check(1230, "%5i", Gives(" -123"), CInt(-123), CInt(0)),
    Check(1231, "%5ld", Gives(" -123"), CInt(-123), CInt(0)),
    Check(1232, "%5li", Gives(" -123"), CInt(-123), CInt(0)),
    Check(1233, "%5lld", Gives(" -123"), CInt(-123), CInt(0)),
    Check(1234, "%5lli", Gives(" -123"), CInt(-123), CInt(0)),
    Check(1235, "%5zd", Gives(" -123"), CInt(-123), CInt(0)),
    Check(1236, "%5zi", Gives(" -123"), CInt(-123), CInt(0)),
    Check(1239, "%05d", Gives("00123"), CInt(123), CInt(0)),
    Check(1240, "%05i", Gives("00123"), CInt(123), CInt(0)),
    Check(1241, "%05u", Gives("00123"), CInt(123), CInt(0)),
    Check(1242, "%05ld", Gives("00123"), CInt(123), CInt(0)),
    Check(1243, "%05li", Gives("00123"), CInt(123), CInt(0)),
    Check(1244, "%05lu", Gives("00123"), CInt(123), CInt(0)),
    Check(1245, "%05lld", Gives("00123"), CInt(123), CInt(0)),
    Check(1246, "%05lli", Gives("00123"), CInt(123), CInt(0)),
    Check(1247, "%05llu", Gives("00123"), CInt(123), CInt(0)),
    Check(1248, "%05zd", Gives("00123"), CInt(123), CInt(0)),
    Check(1249, "%05zi", Gives("00123"), CInt(123), CInt(0)),
    Check(1250, "%05zu", Gives("00123"), CInt(123), CInt(0)),
    Check(1251, "%05x", Gives("0007b"), CInt(123), CInt(0)),
    Check(1253, "%05d", Gives("-0123"), CInt(-123), CInt(0)),
    Check(1254, "%05i", Gives("-0123"), CInt(-123), CInt(0)),
    Check(1255, "%05ld", Gives("-0123"), CInt(-123), CInt(0)),
    Check(1256, "%05li", Gives("-0123"), CInt(-123), CInt(0)),
    Check(1257, "%05lld", Gives("-0123"), CInt(-123), CInt(0)),
    Check(1258, "%05lli", Gives("-0123"), CInt(-123), CInt(0)),
    Check(1259, "%05zd", Gives("-0123"), CInt(-123), CInt(0)),
    Check(1260, "%05zi", Gives("-0123"), CInt(-123), CInt(0)),
    Check(1263, "%.1d", Gives("123"), CInt(123), CInt(0)),
    Check(1264, "%.1i", Gives("123"), CInt(123), CInt(0)),
    Check(1265, "%.1u", Gives("123"), CInt(123), CInt(0)),
    Check(1266, "%.1ld", Gives("123"), CInt(123), CInt(0)),
    Check(1267, "%.1li", Gives("123"), CInt(123), CInt(0)),
    Check(1268, "%.1lu", Gives("123"), CInt(123), CInt(0)),
    Check(1269, "%.1lld", Gives("123"), CInt(123), CInt(0)),
    Check(1270, "%.1lli", Gives("123"), CInt(123), CInt(0)),
    Check(1271, "%.1llu", Gives("123"), CInt(123), CInt(0)),
    Check(1272, "%.1zd", Gives("123"), CInt(123), CInt(0)),
    Check(1273, "%.1zi", Gives("123"), CInt(123), CInt(0)),
    Check(1274, "%.1zu", Gives("123"), CInt(123), CInt(0)),
    Check(1275, "%.1x", Gives("7b"), CInt(123), CInt(0)),
    Check(1277, "%.1d", Gives("-123"), CInt(-123), CInt(0)),
    Check(1278, "%.1i", Gives("-123"), CInt(-123), CInt(0)),
    Check(1279, "%.1ld", Gives("-123"), CInt(-123), CInt(0)),
    Check(1280, "%.1li", Gives("-123"), CInt(-123), CInt(0)),
    Check(1281, "%.1lld", Gives("-123"), CInt(-123), CInt(0)),
    Check(1282, "%.1lli", Gives("-123"), CInt(-123), CInt(0)),
    Check(1283, "%.1zd", Gives("-123"), CInt(-123), CInt(0)),
    Check(1284, "%.1zi", Gives("-123"), CInt(-123), CInt(0)),
    Check(1287, "%.5d", Gives("00123"), CInt(123), CInt(0)),
    Check(1288, "%.5i", Gives("00123"), CInt(123), CInt(0)),
    Check(1289, "%.5u", Gives("00123"), CInt(123), CInt(0)),
    Check(1290, "%.5ld", Gives("00123"), CInt(123), CInt(0)),
    Check(1291, "%.5li", Gives("00123"), CInt(123), CInt(0)),
    Check(1292, "%.5lu", Gives("00123"), CInt(123), CInt(0)),
    Check(1293, "%.5lld", Gives("00123"), CInt(123), CInt(0)),
    Check(1294, "%.5lli", Gives("00123"), CInt(123), CInt(0)),
    Check(1295, "%.5llu", Gives("00123"), CInt(123), CInt(0)),
    Check(1296, "%.5zd", Gives("00123"), CInt(123), CInt(0)),
    Check(1297, "%.5zi", Gives("00123"), CInt(123), CInt(0)),
    Check(1298, "%.5zu", Gives("00123"), CInt(123), CInt(0)),
    Check(1299, "%.5x", Gives("0007b"), CInt(123), CInt(0)),
    Check(1301, "%.5d", Gives("-00123"), CInt(-123), CInt(0)),
    Check(1302, "%.5i", Gives("-00123"), CInt(-123), CInt(0)),
    Check(1303, "%.5ld", Gives("-00123"), CInt(-123), CInt(0)),
    Check(1304, "%.5li", Gives("-00123"), CInt(-123), CInt(0)),
    Check(1305, "%.5lld", Gives("-00123"), CInt(-123), CInt(0)),
    Check(1306, "%.5lli", Gives("-00123"), CInt(-123), CInt(0)),
    Check(1307, "%.5zd", Gives("-00123"), CInt(-123), CInt(0)),
    Check(1308, "%.5zi", Gives("-00123"), CInt(-123), CInt(0)),
    Check(1311, "%7.5d", Gives("  00123"), CInt(123), CInt(0)),
    Check(1312, "%7.5i", Gives("  00123"), CInt(123), CInt(0)),
    Check(1313, "%7.5u", Gives("  00123"), CInt(123), CInt(0)),
    Check(1314, "%7.5ld", Gives("  00123"), CInt(123), CInt(0)),
    Check(1315, "%7.5li", Gives("  00123"), CInt(123), CInt(0)),
    Check(1316, "%7.5lu", Gives("  00123"), CInt(123), CInt(0)),
    Check(1317, "%7.5lld", Gives("  00123"), CInt(123), CInt(0)),
    Check(1318, "%7.5lli", Gives("  00123"), CInt(123), CInt(0)),
    Check(1319, "%7.5llu", Gives("  00123"), CInt(123), CInt(0)),
    Check(1320, "%7.5zd", Gives("  00123"), CInt(123), CInt(0)),
    Check(1321, "%7.5zi", Gives("  00123"), CInt(123), CInt(0)),
    Check(1322, "%7.5zu", Gives("  00123"), CInt(123), CInt(0)),
    Check(1323, "%7.5x", Gives("  0007b"), CInt(123), CInt(0)),
    Check(1325, "%7.5d", Gives(" -00123"), CInt(-123), CInt(0)),
    Check(1326, "%7.5i", Gives(" -00123"), CInt(-123), CInt(0)),
    Check(1327, "%7.5ld", Gives(" -00123"), CInt(-123), CInt(0)),
    Check(1328, "%7.5li", Gives(" -00123"), CInt(-123), CInt(0)),
    Check(1329, "%7.5lld", Gives(" -00123"), CInt(-123), CInt(0)),
    Check(1330, "%7.5lli", Gives(" -00123"), CInt(-123), CInt(0)),
    Check(1331, "%7.5zd", Gives(" -00123"), CInt(-123), CInt(0)),
    Check(1332, "%7.5zi", Gives(" -00123"), CInt(-123), CInt(0)),
    Check(1335, "%07.5d", Gives("0000123"), CInt(123), CInt(0)),
    Check(1336, "%07.5i", Gives("0000123"), CInt(123), CInt(0)),
    Check(1337, "%07.5u", Gives("0000123"), CInt(123), CInt(0)),
    Check(1338, "%07.5ld", Gives("0000123"), CInt(123), CInt(0)),
    Check(1339, "%07.5li", Gives("0000123"), CInt(123), CInt(0)),
    Check(1340, "%07.5lu", Gives("0000123"), CInt(123), CInt(0)),
    Check(1341, "%07.5lld", Gives("0000123"), CInt(123), CInt(0)),
    Check(1342, "%07.5lli", Gives("0000123"), CInt(123), CInt(0)),
    Check(1343, "%07.5llu", Gives("0000123"), CInt(123), CInt(0)),
    Check(1344, "%07.5zd", Gives("0000123"), CInt(123), CInt(0)),
    Check(1345, "%07.5zi", Gives("0000123"), CInt(123), CInt(0)),
    Check(1346, "%07.5zu", Gives("0000123"), CInt(123), CInt(0)),
    Check(1347, "%07.5x", Gives("000007b"), CInt(123), CInt(0)),
    Check(1349, "%07.5d", Gives("-000123"), CInt(-123), CInt(0)),
    Check(1350, "%07.5i", Gives("-000123"), CInt(-123), CInt(0)),
    Check(1351, "%07.5ld", Gives("-000123"), CInt(-123), CInt(0)),
    Check(1352, "%07.5li", Gives("-000123"), CInt(-123), CInt(0)),
    Check(1353, "%07.5lld", Gives("-000123"), CInt(-123), CInt(0)),
    Check(1354, "%07.5lli", Gives("-000123"), CInt(-123), CInt(0)),
    Check(1355, "%07.5zd", Gives("-000123"), CInt(-123), CInt(0)),
    Check(1356, "%07.5zi", Gives("-000123"), CInt(-123), CInt(0)),
    Check(1359, "%5.7d", Gives("0000123"), CInt(123), CInt(0)),
    Check(1360, "%5.7i", Gives("0000123"), CInt(123), CInt(0)),
    Check(1361, "%5.7u", Gives("0000123"), CInt(123), CInt(0)),
    Check(1362, "%5.7ld", Gives("0000123"), CInt(123), CInt(0)),
    Check(1363, "%5.7li", Gives("0000123"), CInt(123), CInt(0)),
    Check(1364, "%5.7lu", Gives("0000123"), CInt(123), CInt(0)),
    Check(1365, "%5.7lld", Gives("0000123"), CInt(123), CInt(0)),
    Check(1366, "%5.7lli", Gives("0000123"), CInt(123), CInt(0)),
    Check(1367, "%5.7llu", Gives("0000123"), CInt(123), CInt(0)),
    Check(1368, "%5.7zd", Gives("0000123"), CInt(123), CInt(0)),
    Check(1369, "%5.7zi", Gives("0000123"), CInt(123), CInt(0)),
    Check(1370, "%5.7zu", Gives("0000123"), CInt(123), CInt(0)),
    Check(1371, "%5.7x", Gives("000007b"), CInt(123), CInt(0)),
    Check(1373, "%5.7d", Gives("-0000123"), CInt(-123), CInt(0)),
    Check(1374, "%5.7i", Gives("-0000123"), CInt(-123), CInt(0)),
    Check(1375, "%5.7ld", Gives("-0000123"), CInt(-123), CInt(0)),
    Check(1376, "%5.7li", Gives("-0000123"), CInt(-123), CInt(0)),
    Check(1377, "%5.7lld", Gives("-0000123"), CInt(-123), CInt(0)),
    Check(1378, "%5.7lli", Gives("-0000123"), CInt(-123), CInt(0)),
    Check(1379, "%5.7zd", Gives("-0000123"), CInt(-123), CInt(0)),
    Check(1380, "%5.7zi", Gives("-0000123"), CInt(-123), CInt(0)),
    Check(1383, "%05.7d", Gives("0000123"), CInt(123), CInt(0)),
    Check(1384, "%05.7i", Gives("0000123"), CInt(123), CInt(0)),
    Check(1385, "%05.7u", Gives("0000123"), CInt(123), CInt(0)),
    Check(1386, "%05.7ld", Gives("0000123"), CInt(123), CInt(0)),
    Check(1387, "%05.7li", Gives("0000123"), CInt(123), CInt(0)),
    Check(1388, "%05.7lu", Gives("0000123"), CInt(123), CInt(0)),
    Check(1389, "%05.7lld", Gives("0000123"), CInt(123), CInt(0)),
    Check(1390, "%05.7lli", Gives("0000123"), CInt(123), CInt(0)),
    Check(1391, "%05.7llu", Gives("0000123"), CInt(123), CInt(0)),
    Check(1392, "%05.7zd", Gives("0000123"), CInt(123), CInt(0)),
    Check(1393, "%05.7zi", Gives("0000123"), CInt(123), CInt(0)),
    Check(1394, "%05.7zu", Gives("0000123"), CInt(123), CInt(0)),
    Check(1395, "%05.7x", Gives("000007b"), CInt(123), CInt(0)),
    Check(1397, "%05.7d", Gives("-0000123"), CInt(-123), CInt(0)),
    Check(1398, "%05.7i", Gives("-0000123"), CInt(-123), CInt(0)),
    Check(1399, "%05.7ld", Gives("-0000123"), CInt(-123), CInt(0)),
    Check(1400, "%05.7li", Gives("-0000123"), CInt(-123), CInt(0)),
    Check(1401, "%05.7lld", Gives("-0000123"), CInt(-123), CInt(0)),
    Check(1402, "%05.7lli", Gives("-0000123"), CInt(-123), CInt(0)),
    Check(1403, "%05.7zd", Gives("-0000123"), CInt(-123), CInt(0)),
    Check(1404, "%05.7zi", Gives("-0000123"), CInt(-123), CInt(0)),
    Check(1407, "%.0d", Gives("0"), CInt(0), CInt(0)),
    Check(1408, "%.0i", Gives("0"), CInt(0), CInt(0)),
    Check(1409, "%.0u", Gives("0"), CInt(0), CInt(0)),
    Check(1410, "%.0ld", Gives("0"), CInt(0), CInt(0)),
    Check(1411, "%.0li", Gives("0"), CInt(0), CInt(0)),
    Check(1412, "%.0lu", Gives("0"), CInt(0), CInt(0)),
    Check(1413, "%.0lld", Gives("0"), CInt(0), CInt(0)),
    Check(1414, "%.0lli", Gives("0"), CInt(0), CInt(0)),
    Check(1415, "%.0llu", Gives("0"), CInt(0), CInt(0)),
    Check(1416, "%.0zd", Gives("0"), CInt(0), CInt(0)),
    Check(1417, "%.0zi", Gives("0"), CInt(0), CInt(0)),
    Check(1418, "%.0zu", Gives("0"), CInt(0), CInt(0)),
    Check(1419, "%.0x", Gives("0"), CInt(0), CInt(0)),
    Check(1422, "%s", Gives("None"), CStr("None"), CInt(0)),
    Check(1423, "%ls", Gives("None"), WStr("None"), CInt(0)),
    Check(1424, "%U", Gives("None"), unicode, CInt(0)),
    Check(1425, "%A", Gives("None"), Py_None, CInt(0)),
    Check(1426, "%S", Gives("None"), Py_None, CInt(0)),
    Check(1427, "%R", Gives("None"), Py_None, CInt(0)),
    Check(1428, "%V", Gives("None"), unicode, CStr("ignored")),
    Check(1429, "%V", Gives("None"), NULL, CStr("None")),
    Check(1430, "%lV", Gives("None"), NULL, WStr("None")),
    Check(1433, "%1s", Gives("None"), CStr("None"), CInt(0)),
    Check(1434, "%1ls", Gives("None"), WStr("None"), CInt(0)),
    Check(1435, "%1U", Gives("None"), unicode, CInt(0)),
    Check(1436, "%1A", Gives("None"), Py_None, CInt(0)),
    Check(1437, "%1S", Gives("None"), Py_None, CInt(0)),
    Check(1438, "%1R", Gives("None"), Py_None, CInt(0)),
    Check(1439, "%1V", Gives("None"), unicode, CStr("ignored")),
    Check(1440, "%1V", Gives("None"), NULL, CStr("None")),
    Check(1441, "%1lV", Gives("None"), NULL, WStr("None")),
    Check(1444, "%5s", Gives(" None"), CStr("None"), CInt(0)),
    Check(1445, "%5ls", Gives(" None"), WStr("None"), CInt(0)),
    Check(1446, "%5U", Gives(" None"), unicode, CInt(0)),
    Check(1447, "%5A", Gives(" None"), Py_None, CInt(0)),
    Check(1448, "%5S", Gives(" None"), Py_None, CInt(0)),
    Check(1449, "%5R", Gives(" None"), Py_None, CInt(0)),
    Check(1450, "%5V", Gives(" None"), unicode, CStr("ignored")),
    Check(1451, "%5V", Gives(" None"), NULL, CStr("None")),
    Check(1452, "%5lV", Gives(" None"), NULL, WStr("None")),
    Check(1455, "%.1s", Gives("N"), CStr("None"), CInt(0)),
    Check(1456, "%.1ls", Gives("N"), WStr("None"), CInt(0)),
    Check(1457, "%.1U", Gives("N"), unicode, CInt(0)),
    Check(1458, "%.1A", Gives("N"), Py_None, CInt(0)),
    Check(1459, "%.1S", Gives("N"), Py_None, CInt(0)),
    Check(1460, "%.1R", Gives("N"), Py_None, CInt(0)),
    Check(1461, "%.1V", Gives("N"), unicode, CStr("ignored")),
    Check(1462, "%.1V", Gives("N"), NULL, CStr("None")),
    Check(1463, "%.1lV", Gives("N"), NULL, WStr("None")),
    Check(1466, "%.5s", Gives("None"), CStr("None"), CInt(0)),
    Check(1467, "%.5ls", Gives("None"), WStr("None"), CInt(0)),
    Check(1468, "%.5U", Gives("None"), unicode, CInt(0)),
    Check(1469, "%.5A", Gives("None"), Py_None, CInt(0)),
    Check(1470, "%.5S", Gives("None"), Py_None, CInt(0)),
    Check(1471, "%.5R", Gives("None"), Py_None, CInt(0)),
    Check(1472, "%.5V", Gives("None"), unicode, CStr("ignored")),
    Check(1473, "%.5V", Gives("None"), NULL, CStr("None")),
    Check(1474, "%.5lV", Gives("None"), NULL, WStr("None")),
    Check(1477, "%5.1s", Gives("    N"), CStr("None"), CInt(0)),
    Check(1478, "%5.1ls", Gives("    N"), WStr("None"), CInt(0)),
    Check(1479, "%5.1U", Gives("    N"), unicode, CInt(0)),
    Check(1480, "%5.1A", Gives("    N"), Py_None, CInt(0)),
    Check(1481, "%5.1S", Gives("    N"), Py_None, CInt(0)),
    Check(1482, "%5.1R", Gives("    N"), Py_None, CInt(0)),
    Check(1483, "%5.1V", Gives("    N"), unicode, CStr("ignored")),
    Check(1484, "%5.1V", Gives("    N"), NULL, CStr("None")),
    Check(1485, "%5.1lV", Gives("    N"), NULL, WStr("None")),
    Check(1488, "%1.5s", Gives("None"), CStr("None"), CInt(0)),
    Check(1489, "%1.5ls", Gives("None"), WStr("None"), CInt(0)),
    Check(1490, "%1.5U", Gives("None"), unicode, CInt(0)),
    Check(1491, "%1.5A", Gives("None"), Py_None, CInt(0)),
    Check(1492, "%1.5S", Gives("None"), Py_None, CInt(0)),
    Check(1493, "%1.5R", Gives("None"), Py_None, CInt(0)),
    Check(1494, "%1.5V", Gives("None"), unicode, CStr("ignored")),
    Check(1495, "%1.5V", Gives("None"), NULL, CStr("None")),
    Check(1496, "%1.5lV", Gives("None"), NULL, WStr("None"))
  >>

\* the checks the function runs, in order
\* the index of the check written at a line of the file
CheckAt(line) == CHOOSE i \in 1..Len(FormatCheckLines) : FormatCheckLines[i].line = line

\* a slip in the table: "%X" expected to give lowercase digits
FormatChecks_X_lowercase ==
    [FormatCheckLines EXCEPT ![CheckAt(1144)].EXPECTED = Gives("7b")]

\* a slip in the table: "%07.5d" expected to give what C's printf gives,
\* which ignores the 0 flag when a precision is given
FormatChecks_zero_flag_as_in_C ==
    [FormatCheckLines EXCEPT ![CheckAt(1335)].EXPECTED = Gives("  00123")]

\* a slip in the table: "%5.1s" expected to be cut but not padded
FormatChecks_s_not_padded ==
    [FormatCheckLines EXCEPT ![CheckAt(1477)].EXPECTED = Gives("N")]

\* a slip in the table: "%2c" expected to give what C's printf gives
FormatChecks_c_width_as_in_C ==
    [FormatCheckLines EXCEPT ![CheckAt(1134)].EXPECTED = Gives(" c")]

\* a slip in the table: "%V" with an object expected to format the C string
FormatChecks_V_formats_C_string ==
    [FormatCheckLines EXCEPT ![CheckAt(1428)].EXPECTED = Gives("ignored")]

FormatChecks == FormatCheckLines

NumChecks == Len(FormatChecks)

\* what a call of PyUnicode_FromFormat may answer: what the API documents,
\* a failed allocation, and the answers of an API that is broken, which
\* the test is there to catch (a wrong text, a missing or an unexpected
\* SystemError)
FromFormatOutcomes(row) ==
    LET m == PyUnicode_FromFormat(row.FORMAT, row.ARG1, row.ARG2)
    IN  {IF m.raises
           THEN [res |-> NULL, err |-> Raised("SystemError", "PyUnicode_FromFormat")]
           ELSE [res |-> Str(m.text, FreshId), err |-> NoErr]}
        \cup {[res |-> NULL, err |-> Raised(t, "PyUnicode_FromFormat")] :
                t \in {"MemoryError", "SystemError"}}
        \cup {[res |-> Str(x, FreshId), err |-> NoErr] :
                x \in {row.EXPECTED.s \o "?", m.text, ""}}

\* a slip: any exception counts as the expected one
check_raised_systemerror_any_exception(res, e) ==
    IF ~IsNULL(res)
      THEN [ok |-> FALSE, err |-> Raised("AssertionError", "check_raised_systemerror")]
      ELSE [ok |-> TRUE, err |-> NoErr]

\* check_raised_systemerror(result, msg): 1 with the error cleared when
\* SystemError is set; 0 otherwise, with AssertionError set when the call
\* returned a result
check_raised_systemerror(res, e) ==
    IF ~IsNULL(res)
      THEN [ok |-> FALSE, err |-> Raised("AssertionError", "check_raised_systemerror")]
    ELSE IF e.type = "SystemError"
      THEN [ok |-> TRUE, err |-> NoErr]
    ELSE [ok |-> FALSE, err |-> e]

_PyUnicode_EqualToASCIIString(res, expected) == res.s = expected

\* the function starts: `unicode` is created and the first check is next
test_string_from_format ==
    /\ Callable
    /\ pc' = "tsff"
    /\ fn' = "test_string_from_format"
    /\ args' = <<>>
    /\ calls' = <<>>
    /\ ret' = NULL
    /\ err' = NoErr
    /\ idx' = 1
    /\ result' = NULL
    /\ owned' = 1
    /\ UNCHANGED <<statics, elsewhere>>

\* the function returns from inside a check
test_string_from_format_exit(c, res, r, e, o) ==
    /\ pc' = "idle"
    /\ calls' = c
    /\ result' = res
    /\ ret' = r
    /\ err' = e
    /\ owned' = o
    /\ UNCHANGED <<fn, args, idx>>
    /\ UNCHANGED <<statics, elsewhere>>

\* the check passed: Py_XDECREF(result), and on to the next check
test_string_from_format_continue(c, res, e) ==
    /\ calls' = c
    /\ result' = res
    /\ idx' = idx + 1
    /\ err' = e
    /\ UNCHANGED <<pc, fn, args, ret, owned>>
    /\ UNCHANGED <<statics, elsewhere>>

\* one check: the expansion of CHECK_FORMAT_2 for the check at idx
CHECK_FORMAT_2 ==
    /\ pc = "tsff"
    /\ idx <= NumChecks
    /\ \E o \in FromFormatOutcomes(FormatChecks[idx]) :
         LET row == FormatChecks[idx]
             c == Append(calls,
                         Call("PyUnicode_FromFormat",
                              <<CStr(row.FORMAT), row.ARG1, row.ARG2>>, o.res, o.err))
             \* references held: `unicode`, and `result` when it is not NULL
             held == owned + (IF IsNULL(o.res) THEN 0 ELSE 1)
             \* after Fail: Py_XDECREF(result); Py_XDECREF(unicode)
             afterFail == held - (IF IsNULL(o.res) THEN 0 ELSE 1) - 1
         IN  IF row.EXPECTED.null
               THEN LET chk == check_raised_systemerror(o.res, o.err)
                    IN  IF ~chk.ok
                          THEN test_string_from_format_exit(c, o.res, NULL, chk.err,
                                                            afterFail)
                          ELSE test_string_from_format_continue(c, o.res, chk.err)
             ELSE IF IsNULL(o.res)
               THEN test_string_from_format_exit(c, o.res, NULL, o.err, held)
             ELSE IF ~_PyUnicode_EqualToASCIIString(o.res, row.EXPECTED.s)
               THEN test_string_from_format_exit(c, o.res, NULL,
                      Raised("AssertionError", "test_string_from_format"), afterFail)
             ELSE test_string_from_format_continue(c, o.res, o.err)

\* every check passed: Py_XDECREF(unicode); Py_RETURN_NONE
test_string_from_format_return ==
    /\ pc = "tsff"
    /\ idx = NumChecks + 1
    /\ pc' = "idle"
    /\ ret' = Py_None
    /\ owned' = owned - 1
    /\ UNCHANGED <<fn, args, calls, err, idx, result>>
    /\ UNCHANGED <<statics, elsewhere>>

-----------------------------------------------------------------------------
(* The generated argument parsing of compiler_cleandoc and                 *)
(* compiler_codegen (METH_FASTCALL|METH_KEYWORDS): positional arguments    *)
(* and keyword arguments are unpacked into argsbuf, converted, and handed  *)
(* to the implementation.                                                  *)

\* an int object of the value n + high * 2^31, high > 0: its digits above
\* the width of a C int are kept in s
PyLongObject_wide(n, high) == [k |-> "int", n |-> n, s |-> <<high>>, id |-> 0]

\* the objects a caller passes for a parameter: -1, 0 and 7, an int that
\* does not fit a C int, None and a str
ParameterObjects ==
    {PyLong_FromLong(-1), PyLong_FromLong(0), PyLong_FromLong(7),
     PyLongObject_wide(0, 1), Py_None, Str(<<97>>, 2)}

\* the keywords a caller passes
CallerKeywords == {"ast", "filename", "optimize", "compile_mode", "doc", "bogus"}

\* a call: the positional arguments and the keyword arguments by name
FastCall(positional, keywords) == [positional |-> positional, keywords |-> keywords]
\* the calls that give the first objects of `objects` by position and the
\* objects of `named` by keyword
FastCalls(objects, named) ==
    {FastCall(SubSeq(objects, 1, nargs), [name \in kwnames |-> named[name]]) :
        nargs \in 0..Len(objects), kwnames \in SUBSET CallerKeywords}

\* the position of a name in _keywords, 0 when it is not there
KeywordIndex(_keywords, name) ==
    IF \E i \in 1..Len(_keywords) : _keywords[i] = name
      THEN CHOOSE i \in 1..Len(_keywords) : _keywords[i] = name
      ELSE 0

\* _PyArg_UnpackKeywords(args, nargs, NULL, kwnames, &_parser, minpos,
\* maxpos, 0, argsbuf): the arguments in the order of _keywords, NULL for
\* an optional one that is absent; or NULL with TypeError for too many
\* arguments, an unknown keyword, an argument given twice or a required
\* one missing
_PyArg_UnpackKeywords(call, _keywords, minpos, maxpos) ==
    LET nargs == Len(call.positional)
        kwnames == DOMAIN call.keywords
        bad == \/ nargs > maxpos
               \/ nargs + Cardinality(kwnames) > Len(_keywords)
               \/ \E name \in kwnames : KeywordIndex(_keywords, name) = 0
               \/ \E name \in kwnames : KeywordIndex(_keywords, name) <= nargs
               \/ \E i \in (nargs + 1)..minpos : _keywords[i] \notin kwnames
    IN  IF bad
          THEN [null |-> TRUE, buf |-> <<>>,
                err |-> Raised("TypeError", "_PyArg_UnpackKeywords")]
          ELSE [null |-> FALSE,
                buf |-> [i \in 1..Len(_keywords) |->
                           IF i <= nargs THEN call.positional[i]
                           ELSE IF _keywords[i] \in kwnames
                             THEN call.keywords[_keywords[i]]
                           ELSE NULL],
                err |-> NoErr]

\* PyLong_AsInt(obj): the value of an int that fits a C int; -1 with
\* OverflowError for one that does not, -1 with TypeError for no int
PyLong_AsInt(obj) ==
    IF obj.k # "int"
      THEN [n |-> -1, err |-> Raised("TypeError", "PyLong_AsInt")]
    ELSE IF obj.s # <<>>
      THEN [n |-> -1, err |-> Raised("OverflowError", "PyLong_AsInt")]
    ELSE [n |-> obj.n, err |-> NoErr]

\* what an implementation may answer: an object, or NULL with an exception
ImplOutcomes(by) ==
    {[res |-> Str(<<97>>, FreshId), err |-> NoErr],
     [res |-> NULL, err |-> Raised("ValueError", by)]}

PyUnicode_Check(obj) == obj.k = "str"

\* _PyArg_UnpackKeywords(..., &_parser, ...) initialises the static _parser
\* of the wrapper the first time it has to look at it; it returns `args`
\* without looking when there are no keyword arguments and the number of
\* positional ones is in range
_PyArg_UnpackKeywords_parser(wrapper, call, minpos, maxpos) ==
    IF /\ DOMAIN call.keywords = {}
       /\ minpos <= Len(call.positional)
       /\ Len(call.positional) <= maxpos
      THEN parsers
      ELSE parsers \cup {wrapper}

\* a generated wrapper returns
ReturnParsed(f, p, a, c, r, e) ==
    /\ Returns(f, a, c, r, e, 0)
    /\ parsers' = p
    /\ UNCHANGED <<_testcapimodule, methods, elsewhere>>

\* a slip: any object passes for a str
compiler_cleandoc_accepts_any(arg) == TRUE

\* the argument compiler_cleandoc accepts as doc
compiler_cleandoc_accepts(arg) == PyUnicode_Check(arg)

_testinternalcapi_compiler_cleandoc ==
    /\ Callable
    /\ \E v \in {Py_None, Str(<<97>>, 2)} :
       \E call \in FastCalls(<<v, v>>, [name \in CallerKeywords |-> v]) :
         LET a == <<call>>
             p == _PyArg_UnpackKeywords_parser("compiler_cleandoc", call, 1, 1)
             unpacked == _PyArg_UnpackKeywords(call, <<"doc">>, 1, 1)
         IN  IF unpacked.null
               THEN ReturnParsed("compiler_cleandoc", p, a, <<>>, NULL, unpacked.err)
             ELSE IF ~compiler_cleandoc_accepts(unpacked.buf[1])
               THEN ReturnParsed("compiler_cleandoc", p, a, <<>>, NULL,
                           Raised("TypeError", "_PyArg_BadArgument"))
             ELSE \E o \in ImplOutcomes("_testinternalcapi_compiler_cleandoc_impl") :
                    ReturnParsed("compiler_cleandoc", p, a,
                           <<Call("_testinternalcapi_compiler_cleandoc_impl",
                                  <<unpacked.buf[1]>>, o.res, o.err)>>,
                           o.res, o.err)

\* a slip: the keyword arguments are not counted
compiler_codegen_noptargs_positional_only(nargs, nkwnames) == nargs - 3

\* the number of optional arguments the caller gave
compiler_codegen_noptargs(nargs, nkwnames) == nargs + nkwnames - 3

_testinternalcapi_compiler_codegen ==
    /\ Callable
    /\ \E v \in ParameterObjects, w \in ParameterObjects :
       \E call \in FastCalls(<<Py_None, Str(<<97>>, 2), v, w, v>>,
                             [name \in CallerKeywords |->
                                CASE name = "ast" -> Py_None
                                  [] name = "filename" -> Str(<<97>>, 2)
                                  [] name = "compile_mode" -> w
                                  [] OTHER -> v]) :
         LET a == <<call>>
             p == _PyArg_UnpackKeywords_parser("compiler_codegen", call, 3, 4)
             noptargs == compiler_codegen_noptargs(Len(call.positional),
                                                   Cardinality(DOMAIN call.keywords))
             unpacked == _PyArg_UnpackKeywords(
                             call, <<"ast", "filename", "optimize", "compile_mode">>, 3, 4)
         IN  IF unpacked.null
               THEN ReturnParsed("compiler_codegen", p, a, <<>>, NULL, unpacked.err)
               ELSE
                 LET ast == unpacked.buf[1]
                     filename == unpacked.buf[2]
                     optimize == PyLong_AsInt(unpacked.buf[3])
                     c1 == <<Call("PyLong_AsInt", <<unpacked.buf[3]>>,
                                  CInt(optimize.n), optimize.err)>>
                 IN  IF optimize.n = -1 /\ PyErr_Occurred(optimize.err)
                       THEN ReturnParsed("compiler_codegen", p, a, c1, NULL, optimize.err)
                     ELSE IF noptargs = 0
                       THEN \E o \in ImplOutcomes("_testinternalcapi_compiler_codegen_impl") :
                              ReturnParsed("compiler_codegen", p, a,
                                     Append(c1, Call("_testinternalcapi_compiler_codegen_impl",
                                                     <<ast, filename, CInt(optimize.n), CInt(0)>>,
                                                     o.res, o.err)),
                                     o.res, o.err)
                     ELSE IF IsNULL(unpacked.buf[4])
                       THEN \* PyLong_AsInt(NULL): a NULL pointer is dereferenced
                            Abort("compiler_codegen", a, c1)
                     ELSE
                       LET compile_mode == PyLong_AsInt(unpacked.buf[4])
                           c2 == Append(c1, Call("PyLong_AsInt", <<unpacked.buf[4]>>,
                                                 CInt(compile_mode.n), compile_mode.err))
                       IN  IF compile_mode.n = -1 /\ PyErr_Occurred(compile_mode.err)
                             THEN ReturnParsed("compiler_codegen", p, a, c2, NULL, compile_mode.err)
                             ELSE \E o \in ImplOutcomes("_testinternalcapi_compiler_codegen_impl") :
                                    ReturnParsed("compiler_codegen", p, a,
                                           Append(c2, Call("_testinternalcapi_compiler_codegen_impl",
                                                           <<ast, filename, CInt(optimize.n),
                                                             CInt(compile_mode.n)>>,
                                                           o.res, o.err)),
                                           o.res, o.err)

-----------------------------------------------------------------------------
(* The method table of the unicode file and the function that adds it to   *)
(* the module.                                                             *)

\* one entry of a PyMethodDef table: {ml_name, ml_meth, ml_flags}
MethodDef(ml_name, ml_meth, ml_flags) ==
    [null |-> FALSE, ml_name |-> ml_name, ml_meth |-> ml_meth, ml_flags |-> ml_flags]
\* the entry {NULL}
MethodDefSentinel ==
    [null |-> TRUE, ml_name |-> "", ml_meth |-> "", ml_flags |-> ""]

TestMethods ==
    <<MethodDef("codec_incrementalencoder", "codec_incrementalencoder", "METH_VARARGS"),
      MethodDef("codec_incrementaldecoder", "codec_incrementaldecoder", "METH_VARARGS"),
      MethodDef("test_unicode_compare_with_ascii", "test_unicode_compare_with_ascii", "METH_NOARGS"),
      MethodDef("test_string_from_format", "test_string_from_format", "METH_NOARGS"),
      MethodDef("test_widechar", "test_widechar", "METH_NOARGS"),
      MethodDef("unicode_new", "unicode_new", "METH_VARARGS"),
      MethodDef("unicode_fill", "unicode_fill", "METH_VARARGS"),
      MethodDef("unicode_writechar", "unicode_writechar", "METH_VARARGS"),
      MethodDef("unicode_resize", "unicode_resize", "METH_VARARGS"),
      MethodDef("unicode_append", "unicode_append", "METH_VARARGS"),
      MethodDef("unicode_appendanddel", "unicode_appendanddel", "METH_VARARGS"),
      MethodDef("unicode_fromstringandsize", "unicode_fromstringandsize", "METH_VARARGS"),
      MethodDef("unicode_fromstring", "unicode_fromstring", "METH_O"),
      MethodDef("unicode_fromkindanddata", "unicode_fromkindanddata", "METH_VARARGS"),
      MethodDef("unicode_substring", "unicode_substring", "METH_VARARGS"),
      MethodDef("unicode_getlength", "unicode_getlength", "METH_O"),
      MethodDef("unicode_readchar", "unicode_readchar", "METH_VARARGS"),
      MethodDef("unicode_fromobject", "unicode_fromobject", "METH_O"),
      MethodDef("unicode_interninplace", "unicode_interninplace", "METH_O"),
      MethodDef("unicode_internfromstring", "unicode_internfromstring", "METH_O"),
      MethodDef("unicode_fromwidechar", "unicode_fromwidechar", "METH_VARARGS"),
      MethodDef("unicode_aswidechar", "unicode_aswidechar", "METH_VARARGS"),
      MethodDef("unicode_aswidechar_null", "unicode_aswidechar_null", "METH_VARARGS"),
      MethodDef("unicode_aswidecharstring", "unicode_aswidecharstring", "METH_VARARGS"),
      MethodDef("unicode_aswidecharstring_null", "unicode_aswidecharstring_null", "METH_VARARGS"),
      MethodDef("unicode_asucs4", "unicode_asucs4", "METH_VARARGS"),
      MethodDef("unicode_asucs4copy", "unicode_asucs4copy", "METH_VARARGS"),
      MethodDef("unicode_fromordinal", "unicode_fromordinal", "METH_VARARGS"),
      MethodDef("unicode_asutf8", "unicode_asutf8", "METH_VARARGS"),
      MethodDef("unicode_asutf8andsize", "unicode_asutf8andsize", "METH_VARARGS"),
      MethodDef("unicode_asutf8andsize_null", "unicode_asutf8andsize_null", "METH_VARARGS"),
      MethodDef("unicode_decodeutf8", "unicode_decodeutf8", "METH_VARARGS"),
      MethodDef("unicode_decodeutf8stateful", "unicode_decodeutf8stateful", "METH_VARARGS"),
      MethodDef("unicode_getdefaultencoding", "unicode_getdefaultencoding", "METH_NOARGS"),
      MethodDef("unicode_transformdecimalandspacetoascii", "unicode_transformdecimalandspacetoascii", "METH_O"),
      MethodDef("unicode_concat", "unicode_concat", "METH_VARARGS"),
      MethodDef("unicode_splitlines", "unicode_splitlines", "METH_VARARGS"),
      MethodDef("unicode_split", "unicode_split", "METH_VARARGS"),
      MethodDef("unicode_rsplit", "unicode_rsplit", "METH_VARARGS"),
      MethodDef("unicode_partition", "unicode_partition", "METH_VARARGS"),
      MethodDef("unicode_rpartition", "unicode_rpartition", "METH_VARARGS"),
      MethodDef("unicode_translate", "unicode_translate", "METH_VARARGS"),
      MethodDef("unicode_join", "unicode_join", "METH_VARARGS"),
      MethodDef("unicode_count", "unicode_count", "METH_VARARGS"),
      MethodDef("unicode_tailmatch", "unicode_tailmatch", "METH_VARARGS"),
      MethodDef("unicode_find", "unicode_find", "METH_VARARGS"),
      MethodDef("unicode_findchar", "unicode_findchar", "METH_VARARGS"),
      MethodDef("unicode_replace", "unicode_replace", "METH_VARARGS"),
      MethodDef("unicode_compare", "unicode_compare", "METH_VARARGS"),
      MethodDef("unicode_comparewithasciistring", "unicode_comparewithasciistring", "METH_VARARGS"),
      MethodDef("unicode_richcompare", "unicode_richcompare", "METH_VARARGS"),
      MethodDef("unicode_format", "unicode_format", "METH_VARARGS"),
      MethodDef("unicode_contains", "unicode_contains", "METH_VARARGS"),
      MethodDef("unicode_isidentifier", "unicode_isidentifier", "METH_O"),
      MethodDef("unicode_copycharacters", "unicode_copycharacters", "METH_VARARGS"),
      MethodDefSentinel>>

\* the functions the file defines, in order, with the names of their
\* parameters
FunctionsOfFile ==
    <<[name |-> "codec_incrementalencoder", parameters |-> <<"self", "args">>],
      [name |-> "codec_incrementaldecoder", parameters |-> <<"self", "args">>],
      [name |-> "test_unicode_compare_with_ascii", parameters |-> <<"self", "ignored">>],
      [name |-> "test_widechar", parameters |-> <<"self", "ignored">>],
      [name |-> "unicode_copy", parameters |-> <<"unicode">>],
      [name |-> "unicode_new", parameters |-> <<"self", "args">>],
      [name |-> "unicode_fill", parameters |-> <<"self", "args">>],
      [name |-> "unicode_writechar", parameters |-> <<"self", "args">>],
      [name |-> "unicode_resize", parameters |-> <<"self", "args">>],
      [name |-> "unicode_append", parameters |-> <<"self", "args">>],
      [name |-> "unicode_appendanddel", parameters |-> <<"self", "args">>],
      [name |-> "unicode_fromstringandsize", parameters |-> <<"self", "args">>],
      [name |-> "unicode_fromstring", parameters |-> <<"self", "arg">>],
      [name |-> "unicode_fromkindanddata", parameters |-> <<"self", "args">>],
      [name |-> "unicode_substring", parameters |-> <<"self", "args">>],
      [name |-> "unicode_getlength", parameters |-> <<"self", "arg">>],
      [name |-> "unicode_readchar", parameters |-> <<"self", "args">>],
      [name |-> "unicode_fromobject", parameters |-> <<"self", "arg">>],
      [name |-> "unicode_interninplace", parameters |-> <<"self", "arg">>],
      [name |-> "unicode_internfromstring", parameters |-> <<"self", "arg">>],
      [name |-> "unicode_fromwidechar", parameters |-> <<"self", "args">>],
      [name |-> "unicode_aswidechar", parameters |-> <<"self", "args">>],
      [name |-> "unicode_aswidechar_null", parameters |-> <<"self", "args">>],
      [name |-> "unicode_aswidecharstring", parameters |-> <<"self", "args">>],
      [name |-> "unicode_aswidecharstring_null", parameters |-> <<"self", "args">>],
      [name |-> "unicode_asucs4", parameters |-> <<"self", "args">>],
      [name |-> "unicode_asucs4copy", parameters |-> <<"self", "args">>],
      [name |-> "unicode_fromordinal", parameters |-> <<"self", "args">>],
      [name |-> "unicode_asutf8", parameters |-> <<"self", "args">>],
      [name |-> "unicode_asutf8andsize", parameters |-> <<"self", "args">>],
      [name |-> "unicode_asutf8andsize_null", parameters |-> <<"self", "args">>],
      [name |-> "unicode_getdefaultencoding", parameters |-> <<"self", "ignored">>],
      [name |-> "unicode_transformdecimalandspacetoascii", parameters |-> <<"self", "arg">>],
      [name |-> "unicode_decodeutf8", parameters |-> <<"self", "args">>],
      [name |-> "unicode_decodeutf8stateful", parameters |-> <<"self", "args">>],
      [name |-> "unicode_concat", parameters |-> <<"self", "args">>],
      [name |-> "unicode_split", parameters |-> <<"self", "args">>],
      [name |-> "unicode_rsplit", parameters |-> <<"self", "args">>],
      [name |-> "unicode_splitlines", parameters |-> <<"self", "args">>],
      [name |-> "unicode_partition", parameters |-> <<"self", "args">>],
      [name |-> "unicode_rpartition", parameters |-> <<"self", "args">>],
      [name |-> "unicode_translate", parameters |-> <<"self", "args">>],
      [name |-> "unicode_join", parameters |-> <<"self", "args">>],
      [name |-> "unicode_count", parameters |-> <<"self", "args">>],
      [name |-> "unicode_find", parameters |-> <<"self", "args">>],
      [name |-> "unicode_tailmatch", parameters |-> <<"self", "args">>],
      [name |-> "unicode_findchar", parameters |-> <<"self", "args">>],
      [name |-> "unicode_replace", parameters |-> <<"self", "args">>],
      [name |-> "unicode_compare", parameters |-> <<"self", "args">>],
      [name |-> "unicode_comparewithasciistring", parameters |-> <<"self", "args">>],
      [name |-> "unicode_richcompare", parameters |-> <<"self", "args">>],
      [name |-> "unicode_format", parameters |-> <<"self", "args">>],
      [name |-> "unicode_contains", parameters |-> <<"self", "args">>],
      [name |-> "unicode_isidentifier", parameters |-> <<"self", "arg">>],
      [name |-> "unicode_copycharacters", parameters |-> <<"self", "args">>],
      [name |-> "check_raised_systemerror", parameters |-> <<"result", "msg">>],
      [name |-> "test_string_from_format", parameters |-> <<"self", "ignored">>],
      [name |-> "_PyTestCapi_Init_Unicode", parameters |-> <<"m">>]>>

\* the number of entries a reader of the table passes before it stops at
\* the first entry whose name is NULL; the table has no end for it when
\* there is none
RECURSIVE EntriesBeforeSentinel(_, _)
EntriesBeforeSentinel(table, i) ==
    IF i > Len(table) THEN -1
    ELSE IF table[i].null THEN i - 1
    ELSE EntriesBeforeSentinel(table, i + 1)

\* PyModule_GetDef(m): the definition the module was created from
PyModule_GetDef(m) == [k |-> "moduledef", n |-> 0, s |-> <<>>, id |-> m]

\* the entries at which adding a function to the module may fail
FailingEntries(n) == {1, n}

\* PyModule_AddFunctions(m, functions): adds the entries before the
\* sentinel in order; 0 when all were added, -1 with an exception when
\* adding one failed, the entries before it staying added
PyModule_AddFunctions(table) ==
    LET n == EntriesBeforeSentinel(table, 1)
        names(upto) == {table[i].ml_name : i \in 1..upto}
    IN  {[n |-> 0, added |-> names(n), err |-> NoErr]}
        \cup {[n |-> -1, added |-> names(j - 1),
               err |-> Raised("MemoryError", "PyModule_AddFunctions")] :
                j \in FailingEntries(n) \cap 1..n}

\* a slip: the failure of PyModule_AddFunctions is not reported
_PyTestCapi_Init_Unicode_result_ignores_failure(added) == 0

\* what _PyTestCapi_Init_Unicode returns for the answer of
\* PyModule_AddFunctions
_PyTestCapi_Init_Unicode_result(added) == IF added < 0 THEN -1 ELSE 0

\* the module is imported: its methods are added once
_PyTestCapi_Init_Unicode ==
    /\ Callable
    /\ IsNULL(_testcapimodule)
    /\ \E m \in {1} :
         IF EntriesBeforeSentinel(TestMethods, 1) < 0
           THEN \* PyModule_AddFunctions reads past the end of the table
                /\ Abort("_PyTestCapi_Init_Unicode", <<>>, <<>>)
           ELSE \E o \in PyModule_AddFunctions(TestMethods) :
                  /\ Returns("_PyTestCapi_Init_Unicode", <<>>,
                             <<Call("PyModule_GetDef", <<>>, PyModule_GetDef(m), NoErr),
                               Call("PyModule_AddFunctions", <<>>, CInt(o.n), o.err)>>,
                             CInt(_PyTestCapi_Init_Unicode_result(o.n)), o.err, 0)
                  /\ _testcapimodule' = PyModule_GetDef(m)
                  /\ methods' = o.added
                  /\ UNCHANGED <<parsers, elsewhere>>

-----------------------------------------------------------------------------
(* The reflection functions, as Doc/c-api/reflection.rst documents them.   *)
(* tstate holds the frames the thread is executing, the current one last.  *)

\* the frame object of frame `owner`, or the dictionary of its locals,
\* globals or builtins; owner 0 is the interpreter of the thread state
Namespace(kind, owner) == [k |-> kind, n |-> 0, s |-> <<>>, id |-> owner]

\* the thread starts to execute a frame, and finishes the current one
frame_enter ==
    /\ Callable
    /\ Len(tstate) < MaxFrames
    /\ \E id \in 1..MaxFrames :
         /\ \A i \in 1..Len(tstate) : tstate[i] # id
         /\ tstate' = Append(tstate, id)
    /\ UNCHANGED <<pc, fn, args, calls, ret, err, idx, result, owned,
                   statics, threads, heap>>

frame_leave ==
    /\ Callable
    /\ tstate # <<>>
    /\ tstate' = SubSeq(tstate, 1, Len(tstate) - 1)
    /\ UNCHANGED <<pc, fn, args, calls, ret, err, idx, result, owned,
                   statics, threads, heap>>

\* a reflection function returns `found` when a frame is executing and
\* `otherwise` when none is; the text does not say whether an exception is
\* set with NULL
Reflect(f, found, otherwise) ==
    /\ LET r == IF tstate # <<>> THEN found ELSE otherwise
       IN  \E e \in {NoErr, Raised("SystemError", f)} :
             /\ PyErr_Occurred(e) => IsNULL(r)
             /\ Returns(f, <<>>, <<>>, r, e, 0)
    /\ UNCHANGED <<statics, elsewhere>>

\* the frame the thread is executing; 0 when there is none
CurrentFrame == IF tstate # <<>> THEN tstate[Len(tstate)] ELSE 0

\* a slip: NULL without a frame, as the functions for locals and globals
PyEval_GetFrameBuiltins_null_without_frame ==
    /\ Callable
    /\ Reflect("PyEval_GetFrameBuiltins", Namespace("builtins", CurrentFrame), NULL)

PyEval_GetBuiltins ==
    /\ Callable
    /\ Reflect("PyEval_GetBuiltins", Namespace("builtins", CurrentFrame),
               Namespace("builtins", 0))
PyEval_GetLocals ==
    /\ Callable
    /\ Reflect("PyEval_GetLocals", Namespace("locals", CurrentFrame), NULL)
PyEval_GetGlobals ==
    /\ Callable
    /\ Reflect("PyEval_GetGlobals", Namespace("globals", CurrentFrame), NULL)
PyEval_GetFrame ==
    /\ Callable
    /\ Reflect("PyEval_GetFrame", Namespace("frame", CurrentFrame), NULL)
PyEval_GetFrameBuiltins ==
    /\ Callable
    /\ Reflect("PyEval_GetFrameBuiltins", Namespace("builtins", CurrentFrame),
               Namespace("builtins", 0))
PyEval_GetFrameLocals ==
    /\ Callable
    /\ Reflect("PyEval_GetFrameLocals", Namespace("locals", CurrentFrame), NULL)
PyEval_GetFrameGlobals ==
    /\ Callable
    /\ Reflect("PyEval_GetFrameGlobals", Namespace("globals", CurrentFrame), NULL)

-----------------------------------------------------------------------------
(* Hooks called from several threads at once.  Every thread passes the     *)
(* same str, object 3, whose contents are in heap; a call is several       *)
(* steps, and the steps of the threads interleave.                         *)

\* thread t calls unicode_fill(to, start, 1, fill_char) or
\* compiler_cleandoc(doc=to); `to` is the str as it is at the call
thread_calls(t) ==
    /\ threads[t].pc = "idle"
    /\ \E f \in {"unicode_fill", "compiler_cleandoc"}, start \in {0, 1},
          nomem \in BOOLEAN, shared \in BOOLEAN :
         /\ f = "unicode_fill" => shared
         /\ f = "compiler_cleandoc" => start = 0 /\ ~nomem
         /\ threads' = [threads EXCEPT ![t] =
                          [pc |-> "called", fn |-> f,
                           to |-> IF shared THEN Str(heap[3], 3) ELSE Py_None,
                           start |-> start, nomem |-> nomem,
                           copy |-> NULL, ret |-> NULL, err |-> NoErr]]
    /\ UNCHANGED <<pc, fn, args, calls, ret, err, idx, result, owned,
                   statics, tstate, heap>>

\* unicode_fill on thread t: to_copy = unicode_copy(to)
thread_unicode_copy(t) ==
    /\ threads[t].pc = "called"
    /\ threads[t].fn = "unicode_fill"
    /\ LET to_copy == unicode_copy(Str(heap[3], 3), threads[t].nomem)
       IN  threads' = [threads EXCEPT ![t] =
                         IF IsNULL(to_copy.res)
                           THEN [@ EXCEPT !.pc = "returned", !.err = to_copy.err]
                           ELSE [@ EXCEPT !.pc = "copied", !.copy = to_copy.res]]
    /\ UNCHANGED <<pc, fn, args, calls, ret, err, idx, result, owned,
                   statics, tstate, heap>>

\* unicode_fill on thread t: PyUnicode_Fill(to_copy, ...) writes the object
\* to_copy points to, and the result is built
thread_PyUnicode_Fill(t) ==
    /\ threads[t].pc = "copied"
    /\ LET to_copy == threads[t].copy
           isShared == to_copy.id \in DOMAIN heap
           target == IF isShared THEN Str(heap[to_copy.id], to_copy.id) ELSE to_copy
           f == PyUnicode_Fill(target, threads[t].start, 1, 120 + t)
       IN  /\ heap' = IF isShared THEN [heap EXCEPT ![to_copy.id] = f.obj.s] ELSE heap
           /\ threads' = [threads EXCEPT ![t] =
                            [@ EXCEPT !.pc = "returned",
                                      !.copy = NULL,
                                      !.ret = IF f.n = -1 /\ PyErr_Occurred(f.err)
                                                THEN NULL
                                                ELSE Py_BuildValue_Nn(f.obj, f.n),
                                      !.err = f.err]]
    /\ UNCHANGED <<pc, fn, args, calls, ret, err, idx, result, owned,
                   statics, tstate>>

\* compiler_cleandoc on thread t: the arguments are unpacked, which
\* initialises the static _parser of the wrapper when no call has yet, and
\* the implementation is called
thread_compiler_cleandoc(t) ==
    /\ threads[t].pc = "called"
    /\ threads[t].fn = "compiler_cleandoc"
    /\ LET call == FastCall(<<>>, [name \in {"doc"} |-> threads[t].to])
           unpacked == _PyArg_UnpackKeywords(call, <<"doc">>, 1, 1)
       IN  /\ parsers' = _PyArg_UnpackKeywords_parser("compiler_cleandoc", call, 1, 1)
           /\ IF unpacked.null
                THEN threads' = [threads EXCEPT ![t] =
                                   [@ EXCEPT !.pc = "returned", !.err = unpacked.err]]
              ELSE IF ~compiler_cleandoc_accepts(unpacked.buf[1])
                THEN threads' = [threads EXCEPT ![t] =
                                   [@ EXCEPT !.pc = "returned",
                                             !.err = Raised("TypeError", "_PyArg_BadArgument")]]
              ELSE \E o \in ImplOutcomes("_testinternalcapi_compiler_cleandoc_impl") :
                     threads' = [threads EXCEPT ![t] =
                                   [@ EXCEPT !.pc = "returned", !.ret = o.res, !.err = o.err]]
    /\ UNCHANGED <<pc, fn, args, calls, ret, err, idx, result, owned,
                   _testcapimodule, methods, tstate, heap>>

\* the caller on thread t takes the result
thread_returns(t) ==
    /\ threads[t].pc = "returned"
    /\ threads' = [threads EXCEPT ![t] =
                     [pc |-> "idle", fn |-> "none", to |-> NULL, start |-> 0,
                      nomem |-> FALSE, copy |-> NULL, ret |-> NULL, err |-> NoErr]]
    /\ UNCHANGED <<pc, fn, args, calls, ret, err, idx, result, owned,
                   statics, tstate, heap>>

-----------------------------------------------------------------------------

Init ==
    /\ Callable
    /\ fn = "none"
    /\ args = <<>>
    /\ calls = <<>>
    /\ ret = NULL
    /\ err = NoErr
    /\ idx = 0
    /\ result = NULL
    /\ owned = 0
    /\ _testcapimodule = NULL
    /\ methods = {}
    /\ parsers = {}
    /\ tstate = <<>>
    /\ threads = [t \in 1..MaxThreads |->
                    [pc |-> "idle", fn |-> "none", to |-> NULL, start |-> 0,
                     nomem |-> FALSE, copy |-> NULL, ret |-> NULL, err |-> NoErr]]
    /\ heap = [id \in {3} |-> <<97, 98>>]

Next ==
    \/ unicode_getlength
    \/ unicode_count
    \/ unicode_find
    \/ unicode_tailmatch
    \/ unicode_findchar
    \/ unicode_compare
    \/ unicode_contains
    \/ unicode_isidentifier
    \/ unicode_concat
    \/ unicode_new
    \/ unicode_fill
    \/ unicode_resize
    \/ unicode_append
    \/ unicode_interninplace
    \/ unicode_aswidechar
    \/ test_unicode_compare_with_ascii
    \/ test_widechar
    \/ test_string_from_format
    \/ CHECK_FORMAT_2
    \/ test_string_from_format_return
    \/ _PyTestCapi_Init_Unicode
    \/ caller_resumes

Spec == Init /\ [][Next]_vars

\* the generated wrappers of the other module
NextClinic ==
    \/ _testinternalcapi_compiler_cleandoc
    \/ _testinternalcapi_compiler_codegen
    \/ caller_resumes

SpecClinic == Init /\ [][NextClinic]_vars

\* the reflection functions, called between the frames of a thread
NextReflection ==
    \/ frame_enter
    \/ frame_leave
    \/ PyEval_GetBuiltins
    \/ PyEval_GetLocals
    \/ PyEval_GetGlobals
    \/ PyEval_GetFrame
    \/ PyEval_GetFrameBuiltins
    \/ PyEval_GetFrameLocals
    \/ PyEval_GetFrameGlobals
    \/ caller_resumes

SpecReflection == Init /\ [][NextReflection]_vars

\* hooks called from several threads while the module is imported
NextThreads ==
    \/ _PyTestCapi_Init_Unicode
    \/ \E t \in 1..MaxThreads : thread_calls(t)
    \/ \E t \in 1..MaxThreads : thread_unicode_copy(t)
    \/ \E t \in 1..MaxThreads : thread_PyUnicode_Fill(t)
    \/ \E t \in 1..MaxThreads : thread_compiler_cleandoc(t)
    \/ \E t \in 1..MaxThreads : thread_returns(t)

SpecThreads == Init /\ [][NextThreads]_vars

-----------------------------------------------------------------------------
(* Properties *)

Returned(f) == pc = "idle" /\ fn = f
\* a hook has returned; the function that sets the module up is no hook
HasReturned == pc = "idle" /\ fn \notin {"none", "_PyTestCapi_Init_Unicode"}

\* the functions that check the API themselves and clear errors they expect
SelfChecking == {"test_string_from_format", "test_widechar"}

\* the API function each hook is named after
ApiOf(f) ==
    CASE f = "unicode_getlength" -> "PyUnicode_GetLength"
      [] f = "unicode_count" -> "PyUnicode_Count"
      [] f = "unicode_find" -> "PyUnicode_Find"
      [] f = "unicode_tailmatch" -> "PyUnicode_Tailmatch"
      [] f = "unicode_findchar" -> "PyUnicode_FindChar"
      [] f = "unicode_compare" -> "PyUnicode_Compare"
      [] f = "unicode_contains" -> "PyUnicode_Contains"
      [] f = "unicode_isidentifier" -> "PyUnicode_IsIdentifier"
      [] f = "unicode_concat" -> "PyUnicode_Concat"
      [] f = "unicode_interninplace" -> "PyUnicode_InternInPlace"
      [] f = "unicode_new" -> "PyUnicode_New"
      [] f = "unicode_fill" -> "PyUnicode_Fill"
      [] f = "unicode_resize" -> "PyUnicode_Resize"
      [] f = "unicode_append" -> "PyUnicode_Append"
      [] f = "unicode_aswidechar" -> "PyUnicode_AsWideChar"

\* the hooks that do nothing but forward
PlainForwarders ==
    {"unicode_getlength", "unicode_count", "unicode_find", "unicode_tailmatch",
     "unicode_findchar", "unicode_compare", "unicode_contains",
     "unicode_isidentifier", "unicode_concat", "unicode_interninplace"}
\* the hooks that hand the API a copy of a str argument
CopyingHooks == {"unicode_fill", "unicode_resize", "unicode_append"}
ForwardingHooks ==
    PlainForwarders \cup CopyingHooks \cup {"unicode_new", "unicode_aswidechar"}

\* the same pointer or the same C integer
SameValue(a, b) == a.k = b.k /\ a.id = b.id /\ a.n = b.n
\* a fresh str with the characters of the caller's str
CopyOf(a, b) == a.k = "str" /\ b.k = "str" /\ a.id # b.id /\ a.s = b.s

\* the call got the caller's arguments, None passed as NULL
Verbatim(c) ==
    /\ Len(c.args) = Len(args)
    /\ \A i \in 1..Len(args) : SameValue(c.args[i], NULLABLE(args[i]))

C2_EveryHookPropagates ==
    HasReturned =>
        \A i \in 1..Len(calls) :
            PyErr_Occurred(calls[i].err) => IsNULL(ret) /\ err = calls[i].err

\* C2, amended: that holds of every hook except the self-checking test
\* functions, which clear an error they expect and go on.
C2_ForwardingHooksPropagate ==
    (HasReturned /\ fn \notin SelfChecking) =>
        \A i \in 1..Len(calls) :
            PyErr_Occurred(calls[i].err) => IsNULL(ret) /\ err = calls[i].err

\* unicode_fill has returned NULL with the SystemError PyUnicode_Fill raised
C2_Witness ==
    /\ Returned("unicode_fill")
    /\ IsNULL(ret)
    /\ calls[Len(calls)].api = "PyUnicode_Fill"
    /\ calls[Len(calls)].res.n = -1
    /\ err = Raised("SystemError", "PyUnicode_Fill")

\* C3: a hook returns NULL only with an exception set, and an object only
\* with none set, whatever its arguments, None included.
C3_NullIffError ==
    HasReturned => (IsNULL(ret) <=> PyErr_Occurred(err))

\* C4: each hook of an integer-returning API function returns NULL for
\* exactly that function's error sentinel (-2 for find and findchar, -1 for
\* count, tailmatch and getlength, -1 with an exception set for compare,
\* contains and isidentifier) and every other value as an int.
C4_IntegerSentinels ==
    LET n == calls[1].res.n
        e == calls[1].err
        isint == ret.k = "int" /\ ret.n = n
    IN  /\ (HasReturned /\ fn \in {"unicode_find", "unicode_findchar"}) =>
               IF n = -2 THEN IsNULL(ret) ELSE isint
        /\ (HasReturned /\ fn \in {"unicode_count", "unicode_tailmatch",
                                   "unicode_getlength"}) =>
               IF n = -1 THEN IsNULL(ret) ELSE isint
        /\ (HasReturned /\ fn \in {"unicode_compare", "unicode_contains",
                                   "unicode_isidentifier"}) =>
               IF n = -1 /\ PyErr_Occurred(e) THEN IsNULL(ret) ELSE isint

\* unicode_find has returned the int -1 for "not found"
C4_Witness ==
    /\ Returned("unicode_find")
    /\ calls[1].res.n = -1
    /\ ret.k = "int"
    /\ ret.n = -1

\* the check written i-th passed: the call gave the expected literal, or
\* raised SystemError where SystemError is expected
Passed(i) ==
    LET row == FormatChecks[i]
        c == calls[i]
    IN  IF row.EXPECTED.null
          THEN IsNULL(c.res) /\ c.err.type = "SystemError"
          ELSE ~IsNULL(c.res) /\ c.res.s = row.EXPECTED.s

\* C5: test_string_from_format returns None only after every check passed;
\* it stops at the first check that does not pass, with AssertionError when
\* the call returned a text (a wrong one, or one where SystemError is
\* expected) and with the call's own exception otherwise; an expected
\* SystemError is cleared before the next check.
C5_FormatChecks ==
    /\ pc = "tsff" =>
           /\ err = NoErr
           /\ Len(calls) = idx - 1
           /\ \A i \in 1..Len(calls) : Passed(i)
    /\ (Returned("test_string_from_format") /\ ret.k = "None") =>
           /\ err = NoErr
           /\ Len(calls) = NumChecks
           /\ \A i \in 1..NumChecks : Passed(i)
    /\ (Returned("test_string_from_format") /\ ret.k # "None") =>
           /\ IsNULL(ret)
           /\ Len(calls) = idx
           /\ \A i \in 1..(idx - 1) : Passed(i)
           /\ ~Passed(idx)
           /\ IF IsNULL(calls[idx].res)
                THEN err = calls[idx].err /\ PyErr_Occurred(err)
                ELSE err.type = "AssertionError"

\* a check failed with AssertionError after an expected SystemError was
\* cleared
C5_Witness ==
    /\ Returned("test_string_from_format")
    /\ IsNULL(ret)
    /\ err.type = "AssertionError"
    /\ idx >= 2
    /\ calls[1].err.type = "SystemError"

\* C6 as stated: the test raises AssertionError when the comparison reports
\* the strings unequal, and returns None when it reports them equal.
C6_RaisesWhenUnequal ==
    (Returned("test_unicode_compare_with_ascii") /\ Len(calls) = 2) =>
        /\ (err.type = "AssertionError") <=> (calls[2].res.n # 0)
        /\ (ret.k = "None") <=> (calls[2].res.n = 0)

\* C6, amended: the test compares the str 'str\0' with the C string "str",
\* two different strings, and adds the AssertionError exactly when the
\* comparison reports them equal; it returns None when the comparison
\* reports them unequal.
C6_RaisesWhenEqual ==
    Returned("test_unicode_compare_with_ascii") =>
        /\ (err.type = "AssertionError") <=> (Len(calls) = 2 /\ calls[2].res.n = 0)
        /\ (ret.k = "None") <=> (Len(calls) = 2 /\ calls[2].res.n # 0)
        /\ Len(calls) = 2 =>
               /\ calls[2].args[1].s = StrNul
               /\ calls[2].args[2].s = StrC
               /\ calls[2].args[1].s # calls[2].args[2].s

\* the comparison answered 0 and the test raised AssertionError
C6_Witness ==
    /\ Returned("test_unicode_compare_with_ascii")
    /\ Len(calls) = 2
    /\ calls[2].res.n = 0
    /\ IsNULL(ret)
    /\ err.type = "AssertionError"

\* C7: 'str\0' does not compare equal to "str"; the test returns None iff
\* the comparison answers non-zero and raises AssertionError iff it answers
\* zero, and on both paths the temporary str is released exactly once.
C7_NulNotEqual ==
    /\ PyUnicode_CompareWithASCIIString(Str(StrNul, FreshId), StrC) # 0
    /\ (Returned("test_unicode_compare_with_ascii") /\ Len(calls) = 2) =>
           /\ calls[1].res.s = StrNul
           /\ SameValue(calls[2].args[1], calls[1].res)
           /\ (ret.k = "None" /\ err = NoErr) <=> (calls[2].res.n # 0)
           /\ (IsNULL(ret) /\ err.type = "AssertionError") <=> (calls[2].res.n = 0)
           /\ owned = 0

\* the comparison answered what the API documents and the test returned
\* None, the temporary released
C7_Witness ==
    /\ Returned("test_unicode_compare_with_ascii")
    /\ Len(calls) = 2
    /\ calls[2].res.n = PyUnicode_CompareWithASCIIString(calls[1].res, StrC)
    /\ ret.k = "None"
    /\ owned = 0

\* C8: unicode_aswidechar(s, n), n >= 0, returns (t, k) with
\* k = min(len(s), n); t is s and one NUL when n > len(s) and the first n
\* characters of s otherwise; the first k characters of t are a prefix of
\* s, and are s when n >= len(s).  It fails with MemoryError only.
C8_AsWideCharRoundTrip ==
    (Returned("unicode_aswidechar") /\ args[1].k = "str" /\ args[2].n >= 0) =>
        LET s == args[1].s
            n == args[2].n
        IN  IF IsNULL(ret)
              THEN err.type = "MemoryError"
              ELSE /\ err = NoErr
                   /\ ret.k = "tuple"
                   /\ ret.n = Min(Len(s), n)
                   /\ ret.s = IF n > Len(s) THEN s \o <<0>> ELSE SubSeq(s, 1, n)
                   /\ SubSeq(ret.s, 1, ret.n) = SubSeq(s, 1, ret.n)
                   /\ n >= Len(s) => SubSeq(ret.s, 1, ret.n) = s

\* a str of two characters came back with its NUL from a larger buffer
C8_Witness ==
    /\ Returned("unicode_aswidechar")
    /\ args[1].k = "str"
    /\ Len(args[1].s) = 2
    /\ args[2].n > 2
    /\ ret.k = "tuple"
    /\ ret.n = 2
    /\ ret.s = args[1].s \o <<0>>

\* the format of a check is one conversion specification
OneSpec(row) ==
    /\ Ch(row.FORMAT, 1) = "%"
    /\ ParseSpec(row.FORMAT, 1).next = Len(row.FORMAT) + 1

Abs(n) == IF n < 0 THEN -n ELSE n

\* the digits of the magnitude of n as the conversion writes them
IntegerDigits(conv, n) ==
    CASE conv \in {"d", "i", "u"} -> Digits(Abs(n), 10, "0123456789")
      [] conv = "x" -> Digits(Abs(n), 16, "0123456789abcdef")
      [] conv = "X" -> Digits(Abs(n), 16, "0123456789ABCDEF")
      [] conv = "o" -> Digits(Abs(n), 8, "01234567")

\* the checks C9 is about: one integer conversion, no flag, width or
\* precision
C9_Applies(row) ==
    /\ OneSpec(row)
    /\ LET sp == ParseSpec(row.FORMAT, 1)
       IN  /\ sp.conv \in {"d", "i", "u", "x", "X", "o"}
           /\ sp.sizemod \in {"", "l", "ll", "z", "t", "j"}
           /\ sp.width = -1 /\ sp.precision = -1
           /\ ~sp.zero /\ ~sp.ljust

\* the text C9 states
C9_Text(row) ==
    LET sp == ParseSpec(row.FORMAT, 1)
    IN  (IF row.ARG1.n < 0 /\ sp.conv \in {"d", "i"} THEN "-" ELSE "")
        \o IntegerDigits(sp.conv, row.ARG1.n)

\* C9: an integer conversion without width or precision gives the decimal,
\* hexadecimal or octal text of its argument, '-' in front of a negative
\* d or i, whatever the length modifier: it is the literal the check
\* expects, the text PyUnicode_FromFormat gives, and the text in `result`
\* whenever the check has passed.
C9_PlainIntegerText ==
    /\ (pc = "tsff" /\ idx <= NumChecks /\ C9_Applies(FormatChecks[idx])) =>
           LET row == FormatChecks[idx]
           IN  /\ row.EXPECTED = Gives(C9_Text(row))
               /\ PyUnicode_FromFormat(row.FORMAT, row.ARG1, row.ARG2)
                      = [raises |-> FALSE, text |-> C9_Text(row)]
    /\ (pc = "tsff" /\ idx > 1 /\ C9_Applies(FormatChecks[idx - 1])) =>
           /\ ~IsNULL(result)
           /\ result.s = C9_Text(FormatChecks[idx - 1])

\* the check of "%llX" has passed with "7B"
C9_Witness ==
    /\ pc = "tsff"
    /\ idx > 1
    /\ FormatChecks[idx - 1].FORMAT = "%llX"
    /\ C9_Applies(FormatChecks[idx - 1])
    /\ result.s = "7B"

\* the checks C10 is about: one conversion d, i, u or x with a width, a
\* precision or the 0 flag
C10_Applies(row) ==
    /\ OneSpec(row)
    /\ LET sp == ParseSpec(row.FORMAT, 1)
       IN  /\ sp.conv \in {"d", "i", "u", "x"}
           /\ sp.width >= 0 \/ sp.precision >= 0 \/ sp.zero
           /\ ~sp.ljust

\* the text C10 states
C10_Text(row) ==
    LET sp == ParseSpec(row.FORMAT, 1)
        n == row.ARG1.n
        digits == IntegerDigits(sp.conv, n)
        padded == Repeat("0", sp.precision - Len(digits)) \o digits
        sign == IF n < 0 THEN "-" ELSE ""
        short == sp.width - Len(sign) - Len(padded)
    IN  IF short <= 0 THEN sign \o padded
        ELSE IF sp.zero THEN sign \o Repeat("0", short) \o padded
        ELSE Repeat(" ", short) \o sign \o padded

\* C10: d, i, u and x with a width, a precision or the 0 flag give the
\* digits padded with zeros to the precision, '-' in front of a negative
\* value, and the whole padded to the width, with spaces on the left
\* without the 0 flag and with zeros after the sign with it, nothing ever
\* cut: it is the literal the check expects, the text PyUnicode_FromFormat
\* gives, and the text in `result` whenever the check has passed.
C10_PaddedIntegerText ==
    /\ (pc = "tsff" /\ idx <= NumChecks /\ C10_Applies(FormatChecks[idx])) =>
           LET row == FormatChecks[idx]
           IN  /\ row.EXPECTED = Gives(C10_Text(row))
               /\ PyUnicode_FromFormat(row.FORMAT, row.ARG1, row.ARG2)
                      = [raises |-> FALSE, text |-> C10_Text(row)]
               /\ Len(C10_Text(row)) >= Len(C9_Text(row))
    /\ (pc = "tsff" /\ idx > 1 /\ C10_Applies(FormatChecks[idx - 1])) =>
           /\ ~IsNULL(result)
           /\ result.s = C10_Text(FormatChecks[idx - 1])

\* the check of "%07.5d" with -123 has passed with zeros after the sign
C10_Witness ==
    /\ pc = "tsff"
    /\ idx > 1
    /\ FormatChecks[idx - 1].FORMAT = "%07.5d"
    /\ FormatChecks[idx - 1].ARG1.n = -123
    /\ C10_Applies(FormatChecks[idx - 1])
    /\ result.s = "-000123"

\* the checks C11 is about: one string conversion s, ls, U, A, S, R, V or lV
C11_Applies(row) ==
    /\ OneSpec(row)
    /\ LET sp == ParseSpec(row.FORMAT, 1)
       IN  /\ sp.conv \in {"s", "U", "A", "S", "R", "V"}
           /\ sp.sizemod \in {"", "l"}
           /\ ~sp.zero /\ ~sp.ljust

\* the text of the argument a string conversion formats
ArgumentText(row) ==
    LET sp == ParseSpec(row.FORMAT, 1)
    IN  CASE sp.conv = "V" -> IF IsNULL(row.ARG1) THEN row.ARG2.s ELSE row.ARG1.s
          [] sp.conv \in {"A", "S", "R"} ->
                 IF row.ARG1.k = "None" THEN "None" ELSE row.ARG1.s
          [] OTHER -> row.ARG1.s

\* a text cut to the precision p and then padded on the left to the width w
\* (-1: none)
CutAndPad(text, w, p) ==
    LET cut == IF p >= 0 /\ p < Len(text) THEN SubSeq(text, 1, p) ELSE text
    IN  Repeat(" ", w - Len(cut)) \o cut

\* the text C11 states
C11_Text(row) ==
    LET sp == ParseSpec(row.FORMAT, 1)
    IN  CutAndPad(ArgumentText(row), sp.width, sp.precision)

\* C11: a string conversion gives the argument's text cut to the precision
\* when that is smaller than its length and then padded with spaces on the
\* left to the width; a smaller width cuts nothing and a larger precision
\* pads nothing.  It is the literal the check expects, the text
\* PyUnicode_FromFormat gives, and the text in `result` whenever the check
\* has passed.
C11_StringText ==
    /\ (pc = "tsff" /\ idx <= NumChecks /\ C11_Applies(FormatChecks[idx])) =>
           LET row == FormatChecks[idx]
               sp == ParseSpec(row.FORMAT, 1)
               text == ArgumentText(row)
           IN  /\ row.EXPECTED = Gives(C11_Text(row))
               /\ PyUnicode_FromFormat(row.FORMAT, row.ARG1, row.ARG2)
                      = [raises |-> FALSE, text |-> C11_Text(row)]
               /\ (sp.precision = -1 \/ sp.precision >= Len(text)) =>
                      /\ Len(row.EXPECTED.s) = Max(sp.width, Len(text))
                      /\ SubSeq(row.EXPECTED.s, Len(row.EXPECTED.s) - Len(text) + 1,
                                Len(row.EXPECTED.s)) = text
    /\ (pc = "tsff" /\ idx > 1 /\ C11_Applies(FormatChecks[idx - 1])) =>
           /\ ~IsNULL(result)
           /\ result.s = C11_Text(FormatChecks[idx - 1])

\* the check of "%5.1s" has passed with the text cut to "N" and padded
C11_Witness ==
    /\ pc = "tsff"
    /\ idx > 1
    /\ FormatChecks[idx - 1].FORMAT = "%5.1s"
    /\ C11_Applies(FormatChecks[idx - 1])
    /\ result.s = "    N"

RECURSIVE SpecStarts(_, _)
\* the positions from i on where a conversion specification of f starts
SpecStarts(f, i) ==
    IF i > Len(f) THEN {}
    ELSE IF Ch(f, i) # "%" THEN SpecStarts(f, i + 1)
    ELSE {i} \cup SpecStarts(f, ParseSpec(f, i).next)

\* a conversion specification of the format ends in a character that is no
\* conversion character
UnrecognizedConversion(format) ==
    \E i \in SpecStarts(format, 1) :
        ParseSpec(format, i).conv \notin
            {"%", "c", "d", "i", "u", "x", "X", "o", "s", "U", "V", "S", "R", "A"}

\* "%%" written with a flag, a width or a precision
PercentWithOptions(row) ==
    /\ OneSpec(row)
    /\ LET sp == ParseSpec(row.FORMAT, 1)
       IN  /\ sp.conv = "%"
           /\ sp.zero \/ sp.ljust \/ sp.width >= 0 \/ sp.precision >= 0

\* "%c" written with a non-zero width or with a precision
CharWithWidthOrPrecision(row) ==
    /\ OneSpec(row)
    /\ LET sp == ParseSpec(row.FORMAT, 1)
       IN  /\ sp.conv = "c"
           /\ sp.width > 0 \/ sp.precision >= 0

\* C12: a check expects SystemError exactly for an unrecognized conversion
\* character, for "%%" with a flag, width or precision and for "%c" with a
\* non-zero width or a precision, and PyUnicode_FromFormat raises it there;
\* plain "%%" gives "%" and "%c" with 0 flags only gives the character of
\* the argument.  After such a check has passed, the call had returned
\* NULL with SystemError.
C12_SystemErrorCases ==
    /\ (pc = "tsff" /\ idx <= NumChecks) =>
           LET row == FormatChecks[idx]
               m == PyUnicode_FromFormat(row.FORMAT, row.ARG1, row.ARG2)
               rejected == \/ UnrecognizedConversion(row.FORMAT)
                           \/ PercentWithOptions(row)
                           \/ CharWithWidthOrPrecision(row)
           IN  /\ row.EXPECTED.null <=> rejected
               /\ m.raises <=> rejected
               /\ row.FORMAT = "%%" => row.EXPECTED = Gives("%") /\ m.text = "%"
               /\ (OneSpec(row) /\ ParseSpec(row.FORMAT, 1).conv = "c" /\ ~rejected) =>
                      /\ row.EXPECTED = Gives(Ch(LowercaseLetters, row.ARG1.n - 96))
                      /\ m.text = row.EXPECTED.s
                      /\ Len(row.EXPECTED.s) = 1
    /\ (pc = "tsff" /\ idx > 1 /\ FormatChecks[idx - 1].EXPECTED.null) =>
           /\ IsNULL(result)
           /\ calls[idx - 1].err.type = "SystemError"

\* the check of "%2c" has passed: SystemError was raised and is cleared
C12_Witness ==
    /\ pc = "tsff"
    /\ idx > 1
    /\ FormatChecks[idx - 1].FORMAT = "%2c"
    /\ CharWithWidthOrPrecision(FormatChecks[idx - 1])
    /\ IsNULL(result)
    /\ calls[idx - 1].err.type = "SystemError"
    /\ err = NoErr

\* the checks C13 is about: one conversion V or lV
C13_Applies(row) ==
    /\ OneSpec(row)
    /\ ParseSpec(row.FORMAT, 1).conv = "V"

\* C13: %V and %lV take an object and a C string, a wide one for %lV.  A
\* non-NULL object is formatted and the C string ignored, whatever it is;
\* for a NULL object the C string is formatted; width and precision apply
\* to the text selected.
C13_ObjectOrCString ==
    /\ (pc = "tsff" /\ idx <= NumChecks /\ C13_Applies(FormatChecks[idx])) =>
           LET row == FormatChecks[idx]
               sp == ParseSpec(row.FORMAT, 1)
               selected == IF IsNULL(row.ARG1) THEN row.ARG2 ELSE row.ARG1
               text == CutAndPad(selected.s, sp.width, sp.precision)
           IN  /\ ArgCount(sp) = 2
               /\ row.ARG1.k \in {"NULL", "str"}
               /\ row.ARG2.k = (IF sp.sizemod = "l" THEN "wstr" ELSE "cstr")
               /\ row.EXPECTED = Gives(text)
               /\ ~IsNULL(row.ARG1) =>
                      \A other \in {CStr("ignored"), CStr("None"), CStr("")} :
                          PyUnicode_FromFormat(row.FORMAT, row.ARG1, other)
                              = [raises |-> FALSE, text |-> text]
               /\ IsNULL(row.ARG1) =>
                      PyUnicode_FromFormat(row.FORMAT, row.ARG1, row.ARG2)
                          = [raises |-> FALSE, text |-> text]
    /\ (pc = "tsff" /\ idx > 1 /\ C13_Applies(FormatChecks[idx - 1])) =>
           LET row == FormatChecks[idx - 1]
               sp == ParseSpec(row.FORMAT, 1)
           IN  /\ ~IsNULL(result)
               /\ ~IsNULL(row.ARG1) =>
                      result.s = CutAndPad(row.ARG1.s, sp.width, sp.precision)
               /\ IsNULL(row.ARG1) =>
                      result.s = CutAndPad(row.ARG2.s, sp.width, sp.precision)

\* the check of "%5.1V" with a NULL object has passed with the C string cut
\* and padded
C13_Witness ==
    /\ pc = "tsff"
    /\ idx > 1
    /\ FormatChecks[idx - 1].FORMAT = "%5.1V"
    /\ IsNULL(FormatChecks[idx - 1].ARG1)
    /\ FormatChecks[idx - 1].ARG2.s = "None"
    /\ result.s = "    N"

\* how often the function released the object
DecrefCount(obj) ==
    Cardinality({i \in 1..Len(calls) :
                    calls[i].api = "Py_DECREF" /\ calls[i].args[1].id = obj.id})

\* C14: U+10ABCD built by PyUnicode_FromWideChar from its wide characters
\* (one of 32 bits, or the pair 0xDBEA 0xDFCD of 16 bits) has the length
\* and the characters of the str built by PyUnicode_FromString from its
\* UTF-8 encoding.  test_widechar raises AssertionError when the lengths
\* differ or when the comparison reports a difference, and releases each
\* of the two strings it created exactly once, after its last use.
C14_WideEqualsUtf8 ==
    /\ \A sz \in WcharSizes :
           LET wide == PyUnicode_FromWideChar(wtext(sz), wtextlen(sz), sz,
                                              FreshId, FALSE).res
               utf8 == PyUnicode_FromString(Utf8Text, FreshId + 1, FALSE).res
           IN  /\ PyUnicode_GET_LENGTH(wide) = PyUnicode_GET_LENGTH(utf8)
               /\ PyUnicode_GET_LENGTH(wide) = 1
               /\ wide.s = utf8.s
               /\ PyUnicode_Compare(wide, utf8) = 0
    /\ Returned("test_widechar") =>
           LET wide == calls[1].res
               made == Len(calls) >= 2 /\ ~IsNULL(calls[2].res)
           IN  /\ IsNULL(wide) =>
                      Len(calls) = 1 /\ IsNULL(ret) /\ err = calls[1].err
               /\ ~IsNULL(wide) =>
                      /\ calls[2].api = "PyUnicode_FromString"
                      /\ DecrefCount(wide) = 1
               /\ (~IsNULL(wide) /\ ~made) =>
                      Len(calls) = 3 /\ IsNULL(ret) /\ err = calls[2].err
               /\ made =>
                      /\ DecrefCount(calls[2].res) = 1
                      /\ IF Len(wide.s) # Len(calls[2].res.s)
                           THEN /\ Len(calls) = 4
                                /\ IsNULL(ret)
                                /\ err.type = "AssertionError"
                           ELSE /\ calls[3].api = "PyUnicode_Compare"
                                /\ SameValue(calls[3].args[1], wide)
                                /\ SameValue(calls[3].args[2], calls[2].res)
                                /\ calls[4].api = "Py_DECREF"
                                /\ calls[5].api = "Py_DECREF"
                                /\ (calls[3].res.n # 0) =>
                                       /\ Len(calls) = 5
                                       /\ IsNULL(ret)
                                       /\ IF PyErr_Occurred(calls[3].err)
                                            THEN err = calls[3].err
                                            ELSE err.type = "AssertionError"
               /\ ret.k = "None" =>
                      /\ made
                      /\ Len(wide.s) = Len(calls[2].res.s)
                      /\ calls[3].res.n = 0

\* with 16-bit wide characters the surrogate pair was joined, the strings
\* compared equal, both were released and the test returned None
C14_Witness ==
    /\ Returned("test_widechar")
    /\ ret.k = "None"
    /\ calls[1].args[1].s = <<56298, 57293, 0>>
    /\ calls[1].args[2].n = 2
    /\ calls[1].res.s = <<1092557>>
    /\ calls[2].res.s = <<1092557>>
    /\ DecrefCount(calls[1].res) = 1
    /\ DecrefCount(calls[2].res) = 1

\* the first half of test_widechar passed in a build with 32-bit wchar_t
FirstHalfPassed32 ==
    /\ Returned("test_widechar")
    /\ calls[1].args[2].n = 1
    /\ Len(calls) >= 5
    /\ calls[3].api = "PyUnicode_Compare"
    /\ calls[3].res.n = 0

\* C15: where wchar_t has 32 bits PyUnicode_FromWideChar fails for the
\* wide character 0x110000; test_widechar then clears the error and
\* returns None with no error pending, and raises AssertionError when the
\* call succeeds.  Where wchar_t has 16 bits the call is not made.
C15_InvalidWideChar ==
    /\ LET o == PyUnicode_FromWideChar(invalid, 1, 4, FreshId + 2, FALSE)
       IN  IsNULL(o.res) /\ PyErr_Occurred(o.err)
    /\ FirstHalfPassed32 =>
           /\ Len(calls) = 6
           /\ calls[6].api = "PyUnicode_FromWideChar"
           /\ calls[6].args[1].s = <<1114112>>
           /\ calls[6].args[2].n = 1
           /\ IF IsNULL(calls[6].res)
                THEN ret.k = "None" /\ err = NoErr /\ owned = 0
                ELSE IsNULL(ret) /\ err.type = "AssertionError"
    /\ (Returned("test_widechar") /\ calls[1].args[2].n = 2) =>
           /\ Len(calls) <= 5
           /\ \A i \in 1..Len(calls) :
                  calls[i].api = "PyUnicode_FromWideChar" => i = 1

\* the call with 0x110000 failed with ValueError, which the test cleared
C15_Witness ==
    /\ FirstHalfPassed32
    /\ Len(calls) = 6
    /\ IsNULL(calls[6].res)
    /\ calls[6].err.type = "ValueError"
    /\ ret.k = "None"
    /\ err = NoErr

\* the parameters of compiler_codegen, in order
CodegenParameters == <<"ast", "filename", "optimize", "compile_mode">>

\* the number of arguments a call gives
ArgumentsGiven(call) == Len(call.positional) + Cardinality(DOMAIN call.keywords)

\* parameter i of `parameters` is given by position or by keyword
IsGiven(call, parameters, i) ==
    i <= Len(call.positional) \/ parameters[i] \in DOMAIN call.keywords

\* the object the call gives for parameter i
Given(call, parameters, i) ==
    IF i <= Len(call.positional) THEN call.positional[i]
    ELSE call.keywords[parameters[i]]

\* every argument of the call names one parameter, none is given twice and
\* the first `required` parameters are given
WellFormedCall(call, parameters, required) ==
    /\ Len(call.positional) <= Len(parameters)
    /\ \A name \in DOMAIN call.keywords :
         \E i \in (Len(call.positional) + 1)..Len(parameters) : parameters[i] = name
    /\ \A i \in 1..required : IsGiven(call, parameters, i)

\* the object is an int whose value a C int holds
ConvertsToInt(obj) == obj.k = "int" /\ obj.s = <<>>

\* the calls of the implementation in a run of the wrapper
ImplCalls(impl) == {i \in 1..Len(calls) : calls[i].api = impl}

\* compiler_codegen hands the call to its implementation
C17_Accepts(call) ==
    /\ WellFormedCall(call, CodegenParameters, 3)
    /\ ConvertsToInt(Given(call, CodegenParameters, 3))
    /\ IsGiven(call, CodegenParameters, 4) =>
           ConvertsToInt(Given(call, CodegenParameters, 4))

\* C17: compiler_codegen takes ast, filename and optimize, by position or
\* by keyword, and an optional compile_mode.  With fewer than three or more
\* than four arguments the implementation is not invoked and NULL is
\* returned with an error.  When the call is well formed and optimize and
\* compile_mode convert to a C int, the implementation is invoked once, as
\* the last step, with the given ast and filename, the value of optimize
\* and the value of compile_mode, or 0 when no compile_mode was given, and
\* its result is returned; a value of -1 is passed like any other.  In
\* every other case NULL is returned with an error and the implementation
\* is not invoked.
C17_CodegenArguments ==
    Returned("compiler_codegen") =>
        LET call == args[1]
            impl == ImplCalls("_testinternalcapi_compiler_codegen_impl")
        IN  /\ (ArgumentsGiven(call) < 3 \/ ArgumentsGiven(call) > 4) =>
                   impl = {} /\ IsNULL(ret) /\ PyErr_Occurred(err)
            /\ IF C17_Accepts(call)
                 THEN /\ impl = {Len(calls)}
                      /\ calls[Len(calls)].args =
                           <<Given(call, CodegenParameters, 1),
                             Given(call, CodegenParameters, 2),
                             CInt(Given(call, CodegenParameters, 3).n),
                             CInt(IF IsGiven(call, CodegenParameters, 4)
                                    THEN Given(call, CodegenParameters, 4).n
                                    ELSE 0)>>
                      /\ ret = calls[Len(calls)].res
                      /\ err = calls[Len(calls)].err
                 ELSE impl = {} /\ IsNULL(ret) /\ PyErr_Occurred(err)

\* compile_mode was given by keyword after three positional arguments, and
\* optimize is -1: the implementation received both
C17_Witness ==
    /\ Returned("compiler_codegen")
    /\ Len(args[1].positional) = 3
    /\ DOMAIN args[1].keywords = {"compile_mode"}
    /\ args[1].positional[3].k = "int"
    /\ args[1].positional[3].n = -1
    /\ args[1].keywords["compile_mode"].k = "int"
    /\ args[1].keywords["compile_mode"].n = 7
    /\ Len(calls) = 3
    /\ calls[3].api = "_testinternalcapi_compiler_codegen_impl"
    /\ calls[3].args[3].n = -1
    /\ calls[3].args[4].n = 7
    /\ calls[3].args[1].k = "None"
    /\ calls[3].args[2].k = "str"
    /\ ret.k = "str"


\* C18: compiler_cleandoc invokes its implementation exactly when the call
\* gives one argument, doc, by position or by keyword, and doc is a str;
\* the implementation then receives that str and its result is returned.
\* With no argument, more than one argument, an argument under another
\* name or a doc that is not a str, NULL is returned with an error and the
\* implementation is not invoked.
C18_CleandocArgument ==
    Returned("compiler_cleandoc") =>
        LET call == args[1]
            impl == ImplCalls("_testinternalcapi_compiler_cleandoc_impl")
        IN  /\ ArgumentsGiven(call) # 1 =>
                   impl = {} /\ IsNULL(ret) /\ PyErr_Occurred(err)
            /\ IF /\ WellFormedCall(call, <<"doc">>, 1)
                  /\ Given(call, <<"doc">>, 1).k = "str"
                 THEN /\ impl = {1}
                      /\ Len(calls) = 1
                      /\ calls[1].args = <<Given(call, <<"doc">>, 1)>>
                      /\ ret = calls[1].res
                      /\ err = calls[1].err
                 ELSE impl = {} /\ IsNULL(ret) /\ PyErr_Occurred(err)

\* doc was given alone, by keyword, and is None: the call was refused with
\* TypeError before the implementation
C18_Witness ==
    /\ Returned("compiler_cleandoc")
    /\ Len(args[1].positional) = 0
    /\ DOMAIN args[1].keywords = {"doc"}
    /\ args[1].keywords["doc"].k = "None"
    /\ calls = <<>>
    /\ IsNULL(ret)
    /\ err.type = "TypeError"


\* the wrapper functions of the file: those with the signature of a method
\* of the module, (self, argument)
WrappersOfFile ==
    {FunctionsOfFile[i].name : i \in
        {j \in 1..Len(FunctionsOfFile) :
            /\ Len(FunctionsOfFile[j].parameters) = 2
            /\ FunctionsOfFile[j].parameters[1] = "self"}}

\* the entries of the table that are no sentinel
MethodEntries == {i \in 1..Len(TestMethods) : ~TestMethods[i].null}

\* C20: _PyTestCapi_Init_Unicode returns 0 exactly when PyModule_AddFunctions
\* succeeded, the module then holding a function for every name of the
\* table, and -1 with the error pending exactly when it failed.  The
\* table ends with its only sentinel entry, no two entries have the same
\* name or the same function, every entry is named after its function, and
\* the functions of the entries are the wrapper functions the file defines.
C20_InitAndTable ==
    /\ Len(TestMethods) > 0
    /\ TestMethods[Len(TestMethods)].null
    /\ MethodEntries = 1..(Len(TestMethods) - 1)
    /\ \A i \in MethodEntries, j \in MethodEntries :
         (\/ TestMethods[i].ml_name = TestMethods[j].ml_name
          \/ TestMethods[i].ml_meth = TestMethods[j].ml_meth) => i = j
    /\ \A i \in MethodEntries : TestMethods[i].ml_name = TestMethods[i].ml_meth
    /\ {TestMethods[i].ml_meth : i \in MethodEntries} = WrappersOfFile
    /\ Returned("_PyTestCapi_Init_Unicode") =>
         LET added == calls[2].res.n
         IN  /\ calls[2].api = "PyModule_AddFunctions"
             /\ ret.n \in {0, -1}
             /\ ret.n = 0 <=> added >= 0
             /\ ret.n = 0 =>
                  /\ err = NoErr
                  /\ methods = {TestMethods[i].ml_name : i \in MethodEntries}
             /\ ret.n = -1 =>
                  /\ PyErr_Occurred(err)
                  /\ methods # {TestMethods[i].ml_name : i \in MethodEntries}

\* adding the last function of the table failed: the functions before it
\* are in the module and the initialisation returned -1
C20_Witness ==
    /\ Returned("_PyTestCapi_Init_Unicode")
    /\ ret.n = -1
    /\ calls[2].res.n = -1
    /\ "unicode_isidentifier" \in methods
    /\ "unicode_copycharacters" \notin methods
    /\ PyErr_Occurred(err)


\* the reflection functions that answer NULL when no frame is executing
NullWithoutFrame ==
    {"PyEval_GetLocals", "PyEval_GetGlobals", "PyEval_GetFrame",
     "PyEval_GetFrameLocals", "PyEval_GetFrameGlobals"}

\* what a reflection function looks up in the current frame
Reflected(f) ==
    CASE f \in {"PyEval_GetBuiltins", "PyEval_GetFrameBuiltins"} -> "builtins"
      [] f \in {"PyEval_GetLocals", "PyEval_GetFrameLocals"} -> "locals"
      [] f \in {"PyEval_GetGlobals", "PyEval_GetFrameGlobals"} -> "globals"
      [] f = "PyEval_GetFrame" -> "frame"

\* C19: when no frame is executing, PyEval_GetLocals, PyEval_GetGlobals,
\* PyEval_GetFrame, PyEval_GetFrameLocals and PyEval_GetFrameGlobals return
\* NULL, and PyEval_GetBuiltins and PyEval_GetFrameBuiltins return the
\* builtins of the interpreter of the thread state, not NULL.  When a frame
\* is executing, each returns the locals, the globals or the builtins of
\* the current frame, or that frame.
C19_ReflectionWithoutFrame ==
    \A f \in NullWithoutFrame \cup {"PyEval_GetBuiltins", "PyEval_GetFrameBuiltins"} :
        Returned(f) =>
            IF tstate = <<>>
              THEN IF f \in NullWithoutFrame
                     THEN IsNULL(ret)
                     ELSE ~IsNULL(ret) /\ ret.k = "builtins" /\ ret.id = 0
              ELSE /\ ~IsNULL(ret)
                   /\ ret.k = Reflected(f)
                   /\ ret.id = tstate[Len(tstate)]

\* PyEval_GetFrameBuiltins was called with no frame executing and answered
\* the builtins of the interpreter
C19_Witness ==
    /\ Returned("PyEval_GetFrameBuiltins")
    /\ tstate = <<>>
    /\ ret.k = "builtins"
    /\ ret.id = 0
    /\ err = NoErr


\* what the call thread t has returned from returns when it runs alone: on
\* the arguments as they were at the call, with the same answers of memory
\* allocation and of the implementation
ReturnsAsAlone(t) ==
    LET th == threads[t]
    IN  IF th.fn = "unicode_fill"
          THEN LET to_copy == unicode_copy(th.to, th.nomem)
               IN  IF IsNULL(to_copy.res)
                     THEN IsNULL(th.ret) /\ th.err = to_copy.err
                     ELSE LET f == PyUnicode_Fill(to_copy.res, th.start, 1, 120 + t)
                          IN  /\ th.ret.k = "tuple"
                              /\ th.ret.s = f.obj.s
                              /\ th.ret.n = f.n
                              /\ th.err = NoErr
          ELSE IF th.to.k = "str"
                 THEN \E o \in ImplOutcomes("_testinternalcapi_compiler_cleandoc_impl") :
                        th.ret = o.res /\ th.err = o.err
                 ELSE IsNULL(th.ret) /\ th.err.type = "TypeError"

\* every call that has returned returned what it returns alone, and the
\* str the threads share is as the caller made it
CallsIndependent ==
    /\ \A t \in 1..MaxThreads : threads[t].pc = "returned" => ReturnsAsAlone(t)
    /\ heap[3] = <<97, 98>>

=============================================================================
